---- MODULE Spec2Model ----
(***************************************************************************)
(* POV EventCamera: capacity-gated reservations (guest slots, upload       *)
(* slots), the two-phase upload commit, the gallery facet ledger and the   *)
(* media retention sweep, modelled from apps/api/src.                      *)
(*                                                                         *)
(* The store is PostgreSQL reached through lib/db `query` (one statement,  *)
(* autocommit) and `withTransaction` (BEGIN .. COMMIT / ROLLBACK).  Every  *)
(* statement reads from the snapshot taken when it starts; an UPDATE of an *)
(* existing row takes that row's lock, waits for a concurrent writer of    *)
(* the row and re-checks its WHERE clause on the row's latest version; an  *)
(* INSERT .. SELECT waits for nobody.  A request is therefore a sequence   *)
(* of steps, one per point at which another request's commit can fall.     *)
(***************************************************************************)
EXTENDS Integers, Sequences, FiniteSets, TLC

\* ------------------------------------------------------------------ bounds
NumProcs == 2        \* concurrent request handlers
MaxSessions == 3     \* rows of device_sessions
MaxMedia == 2        \* rows of media
MaxCeiling == 2      \* largest max_guests / max_uploads_per_guest of an event
NumSweepers == 2     \* overlapping runs of the media retention cleanup
MaxAttempts == 1     \* largest storage_delete_attempts followed

Procs == 1..NumProcs
Events == {1}

\* ------------------------------------------------------------------ text
\* A text value is a sequence of one-character strings; SQL NULL / JS null is
\* the one-element sequence <<"NULL">>, which no text value equals.
NULL == <<"NULL">>
\* a NULL text[] column
NULL_ARRAY == <<NULL>>
SPACE == " "

Lower(c) ==
  CASE c = "A" -> "a"
    [] c = "B" -> "b"
    [] c = "X" -> "x"
    [] c = "Y" -> "y"
    [] OTHER -> c

RECURSIVE TrimLeft(_)
TrimLeft(s) ==
  IF s = <<>> THEN <<>>
  ELSE IF Head(s) = SPACE THEN TrimLeft(Tail(s)) ELSE s

RECURSIVE TrimRight(_)
TrimRight(s) ==
  IF s = <<>> THEN <<>>
  ELSE IF s[Len(s)] = SPACE THEN TrimRight(SubSeq(s, 1, Len(s) - 1)) ELSE s

\* String.prototype.trim
trim(s) == TrimRight(TrimLeft(s))

\* String.prototype.toLowerCase
toLowerCase(s) == [i \in 1..Len(s) |-> Lower(s[i])]

\* [...new Set(list)]: first occurrences, in order
RECURSIVE Dedupe(_)
Dedupe(list) ==
  IF list = <<>> THEN <<>>
  ELSE LET rest == Dedupe(SubSeq(list, 1, Len(list) - 1))
           last == list[Len(list)]
       IN IF \E i \in 1..Len(rest) : rest[i] = last THEN rest ELSE Append(rest, last)

RECURSIVE FilterNonEmpty(_)
FilterNonEmpty(list) ==
  IF list = <<>> THEN <<>>
  ELSE IF Head(list) = <<>> THEN FilterNonEmpty(Tail(list))
       ELSE <<Head(list)>> \o FilterNonEmpty(Tail(list))

Range(f) == {f[i] : i \in DOMAIN f}

\* guest.service.ts ensureDisplayName: null stays null, text is trimmed, blank is null
ensureDisplayName(value) ==
  IF value = NULL THEN NULL
  ELSE IF trim(value) = <<>> THEN NULL ELSE trim(value)

\* variant: the list is not passed through a Set
ensureTags_NoDedupe(value) ==
  FilterNonEmpty([i \in 1..Len(value) |-> toLowerCase(trim(value[i]))])

\* guest.service.ts ensureTags: trim, lower-case, drop blanks, de-duplicate
ensureTags(value) ==
  Dedupe(FilterNonEmpty([i \in 1..Len(value) |-> toLowerCase(trim(value[i]))]))

\* gallery-facets.service normalizeUploaderName
normalizeUploaderName(value) ==
  IF value = NULL \/ value = <<>> THEN NULL
  ELSE IF trim(value) = <<>> THEN NULL ELSE trim(value)

\* gallery-facets.service normalizeTags
normalizeTags(values) ==
  IF values = NULL_ARRAY \/ values = <<>> THEN <<>>
  ELSE Dedupe(FilterNonEmpty([i \in 1..Len(values) |-> toLowerCase(trim(values[i]))]))

\* ------------------------------------------------------------------ inputs
\* display_name of a join request
JoinNames == {NULL, <<SPACE, "B">>}
\* tags of a create-upload request
TagInputs == {<<>>, <<<<"X">>, <<"x", SPACE>>>>}

\* ------------------------------------------------------------------ state
VARIABLES
  events,           \* events table: id -> row
  device_sessions,  \* device_sessions table: sequence of rows, id = index
  media,            \* media table: sequence of rows, id = index
  uploader_facets,  \* event_uploader_facets: <<event_id, uploader_name>> -> media_count
  tag_facets,       \* event_tag_facets: <<event_id, tag>> -> media_count
  blobs,            \* ids of the media rows whose original object is in the bucket
  rowLock,          \* media id -> the request whose open transaction holds the row's lock (0: none)
  proc,             \* request handlers: the request each is serving and where it stands
  now,              \* the wall clock: what Date.now() and SQL now() return
  thumbs,           \* ids of the media rows whose thumbnail object is in the bucket
  sweep             \* runs of the media retention cleanup: each run's candidates and position

vars ==
  <<events, device_sessions, media, uploader_facets, tag_facets, blobs, rowLock, proc,
    now, thumbs, sweep>>

\* what the background jobs and the clock work on, and the guest requests leave alone
jobVars == <<now, thumbs, sweep>>

\* A handler's record.  e, sid, mid, cap, name, tags: what the request has read so
\* far; cnt: the count its statement's snapshot gave; result: the response.
Idle ==
  [op |-> "idle", pc |-> "idle", e |-> 0, sid |-> 0, mid |-> 0, cnt |-> 0,
   cap |-> 0, name |-> NULL, tags |-> <<>>, result |-> ""]

SessionIds == 1..Len(device_sessions)
MediaIds == 1..Len(media)

EmptyFacets == [k \in {} |-> 0]

\* ------------------------------------------------------------------ clock
\* An instant is a day number since 1970-01-01 and the milliseconds into that
\* day (UTC): the epoch milliseconds Date.parse returns, split in two so that
\* each part fits the checker's integers.  A calendar date is <<year, month, day>>.
MS_PER_HOUR == 60 * 60 * 1000
MS_PER_DAY == 24 * MS_PER_HOUR
OPEN_EARLY_BUFFER_HOURS == 13
CLOSE_LATE_BUFFER_HOURS == 13
RETENTION_DAYS == 30
MAX_MEDIA_PER_RUN == 250

\* days from 1970-01-01 to the civil date y-m-d (proleptic Gregorian calendar)
DaysFromCivil(y, m, d) ==
  LET yy == IF m <= 2 THEN y - 1 ELSE y
      era == yy \div 400
      yoe == yy - era * 400
      mp == IF m > 2 THEN m - 3 ELSE m + 9
      doy == (153 * mp + 2) \div 5 + d - 1
      doe == yoe * 365 + yoe \div 4 - yoe \div 100 + doy
  IN era * 146097 + doe - 719468

\* Date.parse(`${date}T..Z`) for the time of day given in milliseconds
DateParse(date, msOfDay) == [d |-> DaysFromCivil(date[1], date[2], date[3]), ms |-> msOfDay]

\* t + k milliseconds, k of either sign
AddMs(t, k) ==
  LET total == t.ms + k
  IN [d |-> t.d + total \div MS_PER_DAY, ms |-> total % MS_PER_DAY]

\* t + n * INTERVAL '1 day'
AddDays(t, n) == [d |-> t.d + n, ms |-> t.ms]

Before(a, b) == a.d < b.d \/ (a.d = b.d /\ a.ms < b.ms)

eventOpenAtMs(eventDate) == AddMs(DateParse(eventDate, 0), 0 - OPEN_EARLY_BUFFER_HOURS * MS_PER_HOUR)

eventCloseAtMs(endDate) ==
  AddMs(DateParse(endDate, MS_PER_DAY - 1), CLOSE_LATE_BUFFER_HOURS * MS_PER_HOUR)

\* new Date(ms).toISOString(), stored in a timestamptz: the same instant, to the millisecond
toEventCloseIso(endDate) == eventCloseAtMs(endDate)

\* variant: closed from the close instant on
resolveEventStatus_ClosedAtClose(eventDate, endDate) ==
  IF Before(now, eventOpenAtMs(eventDate)) THEN "draft"
  ELSE IF ~Before(now, eventCloseAtMs(endDate)) THEN "closed"
  ELSE "active"

\* the Lifecycle Clock, at Date.now()
resolveEventStatus(eventDate, endDate) ==
  IF Before(now, eventOpenAtMs(eventDate)) THEN "draft"
  ELSE IF Before(eventCloseAtMs(endDate), now) THEN "closed"
  ELSE "active"

\* the dates of the events and the instants the clock is read at
Dates == {<<2026, 2, 14>>, <<2026, 2, 15>>, <<2026, 3, 1>>}

At(date, h, mi, sec, ms) == DateParse(date, ((h * 60 + mi) * 60 + sec) * 1000 + ms)

Instants ==
  {At(<<2026, 2, 13>>, 10, 59, 59, 0), At(<<2026, 2, 13>>, 10, 59, 59, 999),
   At(<<2026, 2, 13>>, 11, 0, 0, 0), At(<<2026, 2, 14>>, 12, 0, 0, 0),
   At(<<2026, 2, 15>>, 12, 59, 59, 999), At(<<2026, 2, 15>>, 13, 0, 0, 0),
   At(<<2026, 2, 16>>, 12, 59, 59, 0), At(<<2026, 2, 16>>, 12, 59, 59, 999),
   At(<<2026, 2, 16>>, 13, 0, 0, 0), At(<<2026, 3, 18>>, 12, 59, 59, 998),
   At(<<2026, 3, 18>>, 12, 59, 59, 999)}

\* the event of the running example, while it is open
EVENT_DATE == <<2026, 2, 14>>
END_DATE == <<2026, 2, 15>>
WhileOpen == At(<<2026, 2, 14>>, 12, 0, 0, 0)

\* a cleanup run that is not running
SweepIdle ==
  [pc |-> "idle", queue |-> <<>>, processed |-> 0, cleaned |-> 0, failed |-> 0,
   staged |-> EmptyFacets]

Sweepers == 1..NumSweepers

\* TRUNCATE holds an ACCESS EXCLUSIVE lock on both facet tables from the statement
\* to the end of its transaction: no other statement reads or writes them meanwhile
FacetTablesLocked == \E w \in Sweepers : sweep[w].pc \in {"truncated", "uploaders_inserted"}

\* media_count of a key, 0 when the ledger has no row for it
Count(f, k) == IF k \in DOMAIN f THEN f[k] ELSE 0

\* createEvent has run: one event with its two ceilings, open for guests
Init ==
  /\ \E mg \in 1..MaxCeiling, mu \in 1..MaxCeiling :
       events = [e \in Events |->
                   [status |-> "active", max_guests |-> mg, max_uploads_per_guest |-> mu,
                    event_date |-> EVENT_DATE, end_date |-> END_DATE,
                    expires_at |-> toEventCloseIso(END_DATE),
                  compression_mode |-> "compressed", total_fee |-> 0,
                  name |-> "party", pin_hash |-> NULL]]
  /\ device_sessions = <<>>
  /\ media = <<>>
  /\ uploader_facets = EmptyFacets
  /\ tag_facets = EmptyFacets
  /\ blobs = {}
  /\ rowLock = [m \in 1..MaxMedia |-> 0]
  /\ proc = [p \in Procs |-> Idle]
  /\ now = WhileOpen
  /\ thumbs = {}
  /\ sweep = [w \in Sweepers |-> SweepIdle]

\* the response is sent; the handler is free for the next request
Return(p) ==
  /\ proc[p].pc = "done"
  /\ proc' = [proc EXCEPT ![p] = Idle]
  /\ UNCHANGED <<events, device_sessions, media, uploader_facets, tag_facets, blobs, rowLock>>
  /\ UNCHANGED jobVars

\* ------------------------------------------------------------------ joinEvent
\* COUNT(*) FROM device_sessions WHERE event_id = e AND is_active = true, over rows 1..n
ActiveSessionCountIn(e, n) ==
  Cardinality({s \in 1..n : device_sessions[s].event_id = e /\ device_sessions[s].is_active})

ActiveSessionCount(e) == ActiveSessionCountIn(e, Len(device_sessions))

\* getEventBySlug + ensureEventOpenForJoins, on the stored status column
joinEvent_getEventBySlug(p, e, display_name) ==
  /\ proc[p].op = "idle"
  /\ proc' = [proc EXCEPT ![p] =
       IF events[e].status = "none"
       THEN [Idle EXCEPT !.op = "joinEvent", !.pc = "done", !.e = e, !.result = "EVENT_NOT_FOUND"]
       ELSE IF events[e].status # "active"
       THEN [Idle EXCEPT !.op = "joinEvent", !.pc = "done", !.e = e, !.result = "EVENT_CLOSED"]
       ELSE [Idle EXCEPT !.op = "joinEvent", !.pc = "guest_check", !.e = e,
                         !.cap = events[e].max_guests,
                         !.name = ensureDisplayName(display_name)]]
  /\ UNCHANGED <<events, device_sessions, media, uploader_facets, tag_facets, blobs, rowLock>>
  /\ UNCHANGED jobVars

\* the statement's snapshot: the guest_check CTE counts the rows committed so far
joinEvent_guest_check(p) ==
  /\ proc[p].op = "joinEvent" /\ proc[p].pc = "guest_check"
  /\ proc' = [proc EXCEPT ![p].cnt = ActiveSessionCount(proc[p].e), ![p].pc = "inserted"]
  /\ UNCHANGED <<events, device_sessions, media, uploader_facets, tag_facets, blobs, rowLock>>
  /\ UNCHANGED jobVars

\* the inserted CTE and the statement's commit: one row iff current_count < $4
joinEvent_inserted(p) ==
  /\ proc[p].op = "joinEvent" /\ proc[p].pc = "inserted"
  /\ IF proc[p].cnt < proc[p].cap
     THEN /\ Len(device_sessions) < MaxSessions
          /\ device_sessions' = Append(device_sessions,
               [event_id |-> proc[p].e, display_name |-> proc[p].name, is_active |-> TRUE])
          /\ proc' = [proc EXCEPT ![p].pc = "done", ![p].result = "OK",
                                  ![p].sid = Len(device_sessions) + 1]
     ELSE /\ proc' = [proc EXCEPT ![p].pc = "done", ![p].result = "EVENT_FULL"]
          /\ UNCHANGED device_sessions
  /\ UNCHANGED <<events, media, uploader_facets, tag_facets, blobs, rowLock>>
  /\ UNCHANGED jobVars

\* ------------------------------------------------------------------ organizer: deactivateGuest
deactivateGuest(e, s) ==
  /\ s \in SessionIds
  /\ device_sessions[s].event_id = e
  /\ device_sessions' = [device_sessions EXCEPT ![s].is_active = FALSE]
  /\ UNCHANGED <<events, media, uploader_facets, tag_facets, blobs, rowLock, proc>>
  /\ UNCHANGED jobVars

\* ------------------------------------------------------------------ resolveSessionFromToken
\* variant: is_active is not looked at
resolveSessionFromToken_NoActiveTest(s) ==
  IF s \notin SessionIds THEN "UNAUTHORIZED" ELSE ""

\* the error resolveSessionFromToken throws for the session a token names ("": none)
resolveSessionFromToken(s) ==
  IF ~device_sessions[s].is_active THEN "SESSION_INACTIVE" ELSE ""

\* ------------------------------------------------------------------ createUpload
\* variant: the quota count takes hidden rows too
QuotaStatuses_WithHidden == {"pending", "uploaded", "hidden"}

\* variant: expired rows are counted too
QuotaStatuses_WithExpired == {"pending", "uploaded", "expired"}

\* the statuses the quota_check CTE counts
QuotaStatuses == {"pending", "uploaded"}

\* COUNT(*) FROM media WHERE device_session_id = s AND status IN (..), over rows 1..n
QuotaCountIn(s, n) ==
  Cardinality({m \in 1..n : media[m].device_session_id = s /\ media[m].status \in QuotaStatuses})

QuotaCount(s) == QuotaCountIn(s, Len(media))

\* ------------------------------------------------------------------ createUpload: the request
\* A MIME type is a text of pieces: SPACE, or a word.
LowerWord(w) ==
  CASE w = "IMAGE/JPEG" -> "image/jpeg"
    [] OTHER -> Lower(w)

\* payload.file_type.trim().toLowerCase()
normalizeFileType(file_type) == [i \in 1..Len(trim(file_type)) |-> LowerWord(trim(file_type)[i])]

MAX_FILE_SIZE_COMPRESSED == 5 * 1024 * 1024
MAX_FILE_SIZE_RAW_STANDARD == 15 * 1024 * 1024
MAX_FILE_SIZE_RAW_FAMILY == 25 * 1024 * 1024

\* FILE_TYPE_RULES: the family of each MIME type the API knows
StandardFileTypes ==
  {<<"image/jpeg">>, <<"image/png">>, <<"image/webp">>, <<"image/heic">>, <<"image/heif">>}

RawFileTypes ==
  {<<"image/x-canon-cr2">>, <<"application/x-canon-cr2">>, <<"image/x-nikon-nef">>,
   <<"application/x-nikon-nef">>, <<"image/x-sony-arw">>, <<"application/x-sony-arw">>,
   <<"image/x-adobe-dng">>, <<"application/x-adobe-dng">>, <<"image/x-olympus-orf">>,
   <<"application/x-olympus-orf">>, <<"image/x-panasonic-rw2">>, <<"application/x-panasonic-rw2">>}

FILE_TYPE_RULES(fileType) ==
  IF fileType \in StandardFileTypes THEN "standard"
  ELSE IF fileType \in RawFileTypes THEN "raw"
  ELSE "none"

\* variant: raw mode takes every type the API knows, compressed mode too
ensureFileTypeForMode_AnyKnownType(fileType, mode) ==
  IF FILE_TYPE_RULES(fileType) = "none" THEN "UNSUPPORTED_FILE_TYPE" ELSE FILE_TYPE_RULES(fileType)

\* ensureFileTypeForMode: the family of the rule, or the error it throws
ensureFileTypeForMode(fileType, mode) ==
  IF FILE_TYPE_RULES(fileType) = "none" THEN "UNSUPPORTED_FILE_TYPE"
  ELSE IF mode = "compressed"
  THEN IF fileType \notin {<<"image/jpeg">>, <<"image/png">>, <<"image/webp">>}
       THEN "UNSUPPORTED_FILE_TYPE"
       ELSE FILE_TYPE_RULES(fileType)
  ELSE IF mode = "raw"
  THEN IF FILE_TYPE_RULES(fileType) = "raw" THEN "raw"
       ELSE IF fileType \notin {<<"image/jpeg">>, <<"image/png">>, <<"image/webp">>,
                                <<"image/heic">>, <<"image/heif">>}
       THEN "UNSUPPORTED_FILE_TYPE"
       ELSE FILE_TYPE_RULES(fileType)
  ELSE FILE_TYPE_RULES(fileType)

resolveMaxFileSize(mode, family) ==
  IF mode = "compressed" THEN MAX_FILE_SIZE_COMPRESSED
  ELSE IF family = "raw" THEN MAX_FILE_SIZE_RAW_FAMILY ELSE MAX_FILE_SIZE_RAW_STANDARD

\* variant: the event's status is not looked at
createUpload_request_NoLifecycleGate(p, s, file_type, file_size, tags) ==
  /\ proc[p].op = "idle"
  /\ s \in SessionIds
  /\ LET e == device_sessions[s].event_id
         fileType == normalizeFileType(file_type)
         family == ensureFileTypeForMode(fileType, events[e].compression_mode)
         r == [Idle EXCEPT !.op = "createUpload", !.pc = "done", !.e = e, !.sid = s]
     IN proc' = [proc EXCEPT ![p] =
          IF fileType = <<>> \/ file_size < 1
          THEN [r EXCEPT !.result = "VALIDATION_ERROR"]
          ELSE IF resolveSessionFromToken(s) # ""
          THEN [r EXCEPT !.result = resolveSessionFromToken(s)]
          ELSE IF family = "UNSUPPORTED_FILE_TYPE"
          THEN [r EXCEPT !.result = "UNSUPPORTED_FILE_TYPE"]
          ELSE IF file_size > resolveMaxFileSize(events[e].compression_mode, family)
          THEN [r EXCEPT !.result = "FILE_TOO_LARGE"]
          ELSE [r EXCEPT !.pc = "quota_check",
                         !.cap = events[e].max_uploads_per_guest,
                         !.name = device_sessions[s].display_name,
                         !.tags = ensureTags(tags)]]
  /\ UNCHANGED <<events, device_sessions, media, uploader_facets, tag_facets, blobs, rowLock>>
  /\ UNCHANGED jobVars

\* createUpload up to its INSERT: the body is validated, the session resolved from
\* its token, the event's stored status, the file type and the file size tested
createUpload_request(p, s, file_type, file_size, tags) ==
  /\ proc[p].op = "idle"
  /\ s \in SessionIds
  /\ LET e == device_sessions[s].event_id
         fileType == normalizeFileType(file_type)
         family == ensureFileTypeForMode(fileType, events[e].compression_mode)
         r == [Idle EXCEPT !.op = "createUpload", !.pc = "done", !.e = e, !.sid = s]
     IN proc' = [proc EXCEPT ![p] =
          IF fileType = <<>> \/ file_size < 1
          THEN [r EXCEPT !.result = "VALIDATION_ERROR"]
          ELSE IF resolveSessionFromToken(s) # ""
          THEN [r EXCEPT !.result = resolveSessionFromToken(s)]
          ELSE IF events[e].status # "active"
          THEN [r EXCEPT !.result = "EVENT_CLOSED"]
          ELSE IF family = "UNSUPPORTED_FILE_TYPE"
          THEN [r EXCEPT !.result = "UNSUPPORTED_FILE_TYPE"]
          ELSE IF file_size > resolveMaxFileSize(events[e].compression_mode, family)
          THEN [r EXCEPT !.result = "FILE_TOO_LARGE"]
          ELSE [r EXCEPT !.pc = "quota_check",
                         !.cap = events[e].max_uploads_per_guest,
                         !.name = device_sessions[s].display_name,
                         !.tags = ensureTags(tags)]]
  /\ UNCHANGED <<events, device_sessions, media, uploader_facets, tag_facets, blobs, rowLock>>
  /\ UNCHANGED jobVars

\* createUpload of a one-byte image/jpeg with the given tags
createUpload_resolveSession(p, s, tags) == createUpload_request(p, s, <<"image/jpeg">>, 1, tags)

\* the statement's snapshot: the quota_check CTE counts the rows committed so far
createUpload_quota_check(p) ==
  /\ proc[p].op = "createUpload" /\ proc[p].pc = "quota_check"
  /\ proc' = [proc EXCEPT ![p].cnt = QuotaCount(proc[p].sid), ![p].pc = "inserted"]
  /\ UNCHANGED <<events, device_sessions, media, uploader_facets, tag_facets, blobs, rowLock>>
  /\ UNCHANGED jobVars

\* the inserted CTE and the statement's commit: one pending row iff current_count < $8
createUpload_inserted(p) ==
  /\ proc[p].op = "createUpload" /\ proc[p].pc = "inserted"
  /\ IF proc[p].cnt < proc[p].cap
     THEN /\ Len(media) < MaxMedia
          /\ media' = Append(media,
               [event_id |-> proc[p].e, device_session_id |-> proc[p].sid,
                status |-> "pending", uploader_name |-> proc[p].name, tags |-> proc[p].tags,
                created_at |-> now,
                uploaded_at |-> FALSE, storage_deleted_at |-> FALSE,
                storage_delete_attempts |-> 0, storage_last_delete_error |-> FALSE])
          /\ proc' = [proc EXCEPT ![p].pc = "done", ![p].result = "OK",
                                  ![p].mid = Len(media) + 1]
     ELSE /\ proc' = [proc EXCEPT ![p].pc = "done", ![p].result = "UPLOAD_LIMIT_REACHED"]
          /\ UNCHANGED media
  /\ UNCHANGED <<events, device_sessions, uploader_facets, tag_facets, blobs, rowLock>>
  /\ UNCHANGED jobVars

\* the client PUTs the original to the signed upload URL
ClientPutObject(m) ==
  /\ m \in MediaIds
  /\ m \notin blobs
  /\ blobs' = blobs \cup {m}
  /\ UNCHANGED <<events, device_sessions, media, uploader_facets, tag_facets, rowLock, proc>>
  /\ UNCHANGED jobVars

\* ------------------------------------------------------------------ facet ledger
\* INSERT .. VALUES (key, 1) ON CONFLICT DO UPDATE SET media_count = media_count + 1
Upsert(f, key) ==
  [k \in DOMAIN f \cup {key} |->
     IF k = key THEN (IF key \in DOMAIN f THEN f[key] + 1 ELSE 1) ELSE f[k]]

RECURSIVE UpsertAll(_, _)
UpsertAll(f, keys) ==
  IF keys = {} THEN f
  ELSE LET k == CHOOSE x \in keys : TRUE IN UpsertAll(Upsert(f, k), keys \ {k})

\* addMediaToGalleryFacets, uploader part: event_uploader_facets after the upsert
addMediaToGalleryFacets_uploader(f, m) ==
  IF normalizeUploaderName(m.uploader_name) # NULL
  THEN Upsert(f, <<m.event_id, normalizeUploaderName(m.uploader_name)>>)
  ELSE f

\* addMediaToGalleryFacets, tag part: event_tag_facets after one upsert per unnested tag
addMediaToGalleryFacets_tags(f, m) ==
  UpsertAll(f, {<<m.event_id, t>> : t \in Range(normalizeTags(m.tags))})

\* addMediaToGalleryFacets / removeMediaFromGalleryFacets issue a statement on a facet
\* table iff the normalized name is not null or a tag is left
TouchesFacets(m) == normalizeUploaderName(m.uploader_name) # NULL \/ normalizeTags(m.tags) # <<>>

\* ------------------------------------------------------------------ completeUpload
\* lib/storage doesStorageObjectExist: true iff the store answers and holds the object
doesStorageObjectExist(m, storeAnswers) == storeAnswers /\ m \in blobs

\* variant: the SELECT without the status test that follows it
completeUpload_select_NoStatusTest(p, s, m) ==
  /\ proc[p].op = "idle"
  /\ s \in SessionIds
  /\ m \in MediaIds
  /\ LET r == [Idle EXCEPT !.op = "completeUpload", !.pc = "done", !.sid = s, !.mid = m]
     IN proc' = [proc EXCEPT ![p] =
          IF resolveSessionFromToken(s) # ""
          THEN [r EXCEPT !.result = resolveSessionFromToken(s)]
          ELSE IF media[m].device_session_id # s
          THEN [r EXCEPT !.result = "MEDIA_NOT_FOUND"]
          ELSE [r EXCEPT !.pc = "verify"]]
  /\ UNCHANGED <<events, device_sessions, media, uploader_facets, tag_facets, blobs, rowLock>>
  /\ UNCHANGED jobVars

\* variant: the SELECT by id alone
completeUpload_select_AnyOwner(p, s, m) ==
  /\ proc[p].op = "idle"
  /\ s \in SessionIds
  /\ m \in MediaIds
  /\ LET r == [Idle EXCEPT !.op = "completeUpload", !.pc = "done", !.sid = s, !.mid = m]
     IN proc' = [proc EXCEPT ![p] =
          IF resolveSessionFromToken(s) # ""
          THEN [r EXCEPT !.result = resolveSessionFromToken(s)]
          ELSE IF media[m].status # "pending"
          THEN [r EXCEPT !.result = "MEDIA_STATE_CONFLICT"]
          ELSE [r EXCEPT !.pc = "verify"]]
  /\ UNCHANGED <<events, device_sessions, media, uploader_facets, tag_facets, blobs, rowLock>>
  /\ UNCHANGED jobVars

\* variant: a completeUpload is let through only while the event is active
completeUpload_select_ActiveOnly(p, s, m) ==
  /\ proc[p].op = "idle"
  /\ s \in SessionIds
  /\ m \in MediaIds
  /\ LET r == [Idle EXCEPT !.op = "completeUpload", !.pc = "done", !.sid = s, !.mid = m]
     IN proc' = [proc EXCEPT ![p] =
          IF resolveSessionFromToken(s) # ""
          THEN [r EXCEPT !.result = resolveSessionFromToken(s)]
          ELSE IF events[device_sessions[s].event_id].status # "active"
          THEN [r EXCEPT !.result = "EVENT_CLOSED"]
          ELSE IF media[m].device_session_id # s
          THEN [r EXCEPT !.result = "MEDIA_NOT_FOUND"]
          ELSE IF media[m].status # "pending"
          THEN [r EXCEPT !.result = "MEDIA_STATE_CONFLICT"]
          ELSE [r EXCEPT !.pc = "verify"]]
  /\ UNCHANGED <<events, device_sessions, media, uploader_facets, tag_facets, blobs, rowLock>>
  /\ UNCHANGED jobVars

\* resolveSessionFromToken, then the SELECT of the caller's media row and the status test
completeUpload_select(p, s, m) ==
  /\ proc[p].op = "idle"
  /\ s \in SessionIds
  /\ m \in MediaIds
  /\ LET r == [Idle EXCEPT !.op = "completeUpload", !.pc = "done", !.sid = s, !.mid = m]
     IN proc' = [proc EXCEPT ![p] =
          IF resolveSessionFromToken(s) # ""
          THEN [r EXCEPT !.result = resolveSessionFromToken(s)]
          ELSE IF media[m].device_session_id # s
          THEN [r EXCEPT !.result = "MEDIA_NOT_FOUND"]
          ELSE IF media[m].status # "pending"
          THEN [r EXCEPT !.result = "MEDIA_STATE_CONFLICT"]
          ELSE [r EXCEPT !.pc = "verify"]]
  /\ UNCHANGED <<events, device_sessions, media, uploader_facets, tag_facets, blobs, rowLock>>
  /\ UNCHANGED jobVars

\* variant: a failed storage check gives the row up
completeUpload_verify_GiveUp(p, storeAnswers) ==
  /\ proc[p].op = "completeUpload" /\ proc[p].pc = "verify"
  /\ IF doesStorageObjectExist(proc[p].mid, storeAnswers)
     THEN /\ proc' = [proc EXCEPT ![p].pc = "update"]
          /\ UNCHANGED media
     ELSE /\ proc' = [proc EXCEPT ![p].pc = "done", ![p].result = "UPLOAD_NOT_FOUND"]
          /\ media' = [media EXCEPT ![proc[p].mid].status = "expired"]
  /\ UNCHANGED <<events, device_sessions, uploader_facets, tag_facets, blobs, rowLock>>
  /\ UNCHANGED jobVars

\* the storage check: UPLOAD_NOT_FOUND unless the object is seen
completeUpload_verify(p, storeAnswers) ==
  /\ proc[p].op = "completeUpload" /\ proc[p].pc = "verify"
  /\ proc' = [proc EXCEPT ![p] =
       IF doesStorageObjectExist(proc[p].mid, storeAnswers)
       THEN [proc[p] EXCEPT !.pc = "update"]
       ELSE [proc[p] EXCEPT !.pc = "done", !.result = "UPLOAD_NOT_FOUND"]]
  /\ UNCHANGED <<events, device_sessions, media, uploader_facets, tag_facets, blobs, rowLock>>
  /\ UNCHANGED jobVars

\* variant: the UPDATE without status = 'pending' in its WHERE
completeUpload_update_NoStatusGuard(p) ==
  /\ proc[p].op = "completeUpload" /\ proc[p].pc = "update"
  /\ rowLock[proc[p].mid] = 0
  /\ LET m == proc[p].mid
     IN IF media[m].device_session_id = proc[p].sid
        THEN /\ rowLock' = [rowLock EXCEPT ![m] = p]
             /\ proc' = [proc EXCEPT ![p].pc = "facets"]
        ELSE /\ proc' = [proc EXCEPT ![p].pc = "done", ![p].result = "MEDIA_STATE_CONFLICT"]
             /\ UNCHANGED rowLock
  /\ UNCHANGED <<events, device_sessions, media, uploader_facets, tag_facets, blobs>>
  /\ UNCHANGED jobVars

\* BEGIN; UPDATE media .. WHERE status = 'pending': waits for the row's lock, then
\* flips the row inside the transaction, or matches no row and throws (ROLLBACK)
completeUpload_update(p) ==
  /\ proc[p].op = "completeUpload" /\ proc[p].pc = "update"
  /\ rowLock[proc[p].mid] = 0
  /\ LET m == proc[p].mid
     IN IF media[m].device_session_id = proc[p].sid /\ media[m].status = "pending"
        THEN /\ rowLock' = [rowLock EXCEPT ![m] = p]
             /\ proc' = [proc EXCEPT ![p].pc = "facets"]
        ELSE /\ proc' = [proc EXCEPT ![p].pc = "done", ![p].result = "MEDIA_STATE_CONFLICT"]
             /\ UNCHANGED rowLock
  /\ UNCHANGED <<events, device_sessions, media, uploader_facets, tag_facets, blobs>>
  /\ UNCHANGED jobVars

\* variant: the flip commits on its own, the increments are lost
completeUpload_commit_FlipOnly(p) ==
  /\ proc[p].op = "completeUpload" /\ proc[p].pc = "facets"
  /\ LET m == proc[p].mid
     IN /\ media' = [media EXCEPT ![m].status = "uploaded", ![m].uploaded_at = TRUE]
        /\ rowLock' = [rowLock EXCEPT ![m] = 0]
        /\ proc' = [proc EXCEPT ![p].pc = "done", ![p].result = "OK"]
  /\ UNCHANGED <<events, device_sessions, uploader_facets, tag_facets, blobs>>
  /\ UNCHANGED jobVars

\* addMediaToGalleryFacets and COMMIT: the flip and the increments become visible together
completeUpload_commit(p) ==
  /\ proc[p].op = "completeUpload" /\ proc[p].pc = "facets"
  /\ TouchesFacets(media[proc[p].mid]) => ~FacetTablesLocked
  /\ LET m == proc[p].mid
     IN /\ media' = [media EXCEPT ![m].status = "uploaded", ![m].uploaded_at = TRUE]
        /\ uploader_facets' = addMediaToGalleryFacets_uploader(uploader_facets, media[m])
        /\ tag_facets' = addMediaToGalleryFacets_tags(tag_facets, media[m])
        /\ rowLock' = [rowLock EXCEPT ![m] = 0]
        /\ proc' = [proc EXCEPT ![p].pc = "done", ![p].result = "OK"]
  /\ UNCHANGED <<events, device_sessions, blobs>>
  /\ UNCHANGED jobVars

\* a statement of the transaction fails (store unavailable): withTransaction rolls back
completeUpload_rollback(p) ==
  /\ proc[p].op = "completeUpload" /\ proc[p].pc = "facets"
  /\ rowLock' = [rowLock EXCEPT ![proc[p].mid] = 0]
  /\ proc' = [proc EXCEPT ![p].pc = "done", ![p].result = "INTERNAL_ERROR"]
  /\ UNCHANGED <<events, device_sessions, media, uploader_facets, tag_facets, blobs>>
  /\ UNCHANGED jobVars

\* ------------------------------------------------------------------ organizer: hide / unhide
\* variant: hiding takes the row's uploader out of the ledger
hideMedia_DropFacet(e, m) ==
  /\ m \in MediaIds
  /\ media[m].event_id = e
  /\ rowLock[m] = 0
  /\ media' = [media EXCEPT ![m].status = "hidden"]
  /\ uploader_facets' =
       [k \in DOMAIN uploader_facets \ {<<e, normalizeUploaderName(media[m].uploader_name)>>} |->
          uploader_facets[k]]
  /\ UNCHANGED <<events, device_sessions, tag_facets, blobs, rowLock, proc>>
  /\ UNCHANGED jobVars

\* UPDATE media SET status = 'hidden' WHERE id = m AND event_id = e
hideMedia(e, m) ==
  /\ m \in MediaIds
  /\ media[m].event_id = e
  /\ rowLock[m] = 0
  /\ media' = [media EXCEPT ![m].status = "hidden"]
  /\ UNCHANGED <<events, device_sessions, uploader_facets, tag_facets, blobs, rowLock, proc>>
  /\ UNCHANGED jobVars

\* UPDATE media SET status = 'uploaded' WHERE id = m AND event_id = e
unhideMedia(e, m) ==
  /\ m \in MediaIds
  /\ media[m].event_id = e
  /\ rowLock[m] = 0
  /\ media' = [media EXCEPT ![m].status = "uploaded"]
  /\ UNCHANGED <<events, device_sessions, uploader_facets, tag_facets, blobs, rowLock, proc>>
  /\ UNCHANGED jobVars

\* UPDATE media SET status = 'hidden' WHERE event_id = e AND id = ANY(ids) AND status <> 'hidden'
bulkHideMedia(e, ids) ==
  /\ ids # {}
  /\ ids \subseteq MediaIds
  /\ \A m \in ids : rowLock[m] = 0
  /\ media' = [m \in MediaIds |->
                 IF m \in ids /\ media[m].event_id = e /\ media[m].status # "hidden"
                 THEN [media[m] EXCEPT !.status = "hidden"]
                 ELSE media[m]]
  /\ UNCHANGED <<events, device_sessions, uploader_facets, tag_facets, blobs, rowLock, proc>>
  /\ UNCHANGED jobVars

\* ------------------------------------------------------------------ patchMySession
\* UPDATE device_sessions SET display_name = $1, for the session of an active token
patchMySession(s, display_name) ==
  /\ s \in SessionIds
  /\ resolveSessionFromToken(s) = ""
  /\ device_sessions' = [device_sessions EXCEPT ![s].display_name = ensureDisplayName(display_name)]
  /\ UNCHANGED <<events, media, uploader_facets, tag_facets, blobs, rowLock, proc>>
  /\ UNCHANGED jobVars

\* ------------------------------------------------------------------ facet ledger: decrement, rebuild
FACET_TRACKED_STATUSES == {"uploaded", "hidden"}

isFacetTrackedMediaStatus(status) == status \in FACET_TRACKED_STATUSES

Max(a, b) == IF a >= b THEN a ELSE b
Min(a, b) == IF a <= b THEN a ELSE b

\* variant: the UPDATE without the DELETE that follows it
Decrement_KeepZero(f, key, delta) ==
  IF key \notin DOMAIN f THEN f
  ELSE [f EXCEPT ![key] = Max(f[key] - delta, 0)]

\* UPDATE .. SET media_count = GREATEST(media_count - delta, 0), then DELETE .. WHERE media_count <= 0
Decrement(f, key, delta) ==
  IF key \notin DOMAIN f THEN f
  ELSE IF Max(f[key] - delta, 0) <= 0
       THEN [k \in DOMAIN f \ {key} |-> f[k]]
       ELSE [f EXCEPT ![key] = Max(f[key] - delta, 0)]

\* COUNT(*) .. GROUP BY tag_item: occurrences of a tag in the array
Occurrences(list, x) == Cardinality({i \in 1..Len(list) : list[i] = x})

RECURSIVE DecrementAll(_, _, _, _)
DecrementAll(f, e, tagset, list) ==
  IF tagset = {} THEN f
  ELSE LET t == CHOOSE x \in tagset : TRUE
       IN DecrementAll(Decrement(f, <<e, t>>, Occurrences(list, t)), e, tagset \ {t}, list)

\* removeMediaFromGalleryFacets, uploader part
removeMediaFromGalleryFacets_uploader(f, item) ==
  IF normalizeUploaderName(item.uploader_name) # NULL
  THEN Decrement(f, <<item.event_id, normalizeUploaderName(item.uploader_name)>>, 1)
  ELSE f

\* removeMediaFromGalleryFacets, tag part
removeMediaFromGalleryFacets_tags(f, item) ==
  DecrementAll(f, item.event_id, Range(normalizeTags(item.tags)), normalizeTags(item.tags))

\* COALESCE(a, b)
COALESCE(a, b) == IF a # NULL THEN a ELSE b

\* NULLIF(BTRIM(value), '')
NullIfBlank(value) ==
  IF value = NULL THEN NULL
  ELSE IF trim(value) = <<>> THEN NULL ELSE trim(value)

\* the uploader_name column of the rebuild's source sub-select, for media row m
RebuildUploaderName(m) ==
  COALESCE(NullIfBlank(media[m].uploader_name),
           NullIfBlank(device_sessions[media[m].device_session_id].display_name))

\* the rows the rebuild scans
RebuildRows == {m \in MediaIds : media[m].status \in {"uploaded", "hidden"}}

\* event_uploader_facets after TRUNCATE and INSERT .. SELECT .. GROUP BY
rebuildGalleryFacets_uploader ==
  LET keys == {<<media[m].event_id, RebuildUploaderName(m)>> :
                 m \in {r \in RebuildRows : RebuildUploaderName(r) # NULL}}
  IN [k \in keys |->
        Cardinality({m \in RebuildRows : <<media[m].event_id, RebuildUploaderName(m)>> = k})]

\* unnest(COALESCE(m.tags, ARRAY[]::text[])) of media row m
UnnestTags(m) == IF media[m].tags = NULL_ARRAY THEN <<>> ELSE media[m].tags

\* the rows of the lateral join whose tag_item is not blank: <<m, i>>
RebuildTagItems ==
  {mi \in UNION {{<<m, i>> : i \in 1..Len(UnnestTags(m))} : m \in RebuildRows} :
     trim(UnnestTags(mi[1])[mi[2]]) # <<>>}

\* LOWER(BTRIM(tag_item))
RebuildTag(mi) == toLowerCase(trim(UnnestTags(mi[1])[mi[2]]))

\* event_tag_facets after TRUNCATE and INSERT .. SELECT .. GROUP BY
rebuildGalleryFacets_tags ==
  LET keys == {<<media[mi[1]].event_id, RebuildTag(mi)>> : mi \in RebuildTagItems}
  IN [k \in keys |->
        Cardinality({mi \in RebuildTagItems : <<media[mi[1]].event_id, RebuildTag(mi)>> = k})]

\* ------------------------------------------------------------------ media retention cleanup
\* variant: the event's status is not looked at
IsCleanupCandidate_AnyEvent(m) ==
  /\ ~media[m].storage_deleted_at
  /\ media[m].status \in {"uploaded", "hidden", "pending", "failed", "expired"}
  /\ ~Before(now, AddDays(events[media[m].event_id].expires_at, RETENTION_DAYS))

\* the WHERE clause of fetchCleanupCandidates, for media row m
IsCleanupCandidate(m) ==
  /\ ~media[m].storage_deleted_at
  /\ media[m].status \in {"uploaded", "hidden", "pending", "failed", "expired"}
  /\ events[media[m].event_id].status \in {"closed", "archived", "purged"}
  /\ ~Before(now, AddDays(events[media[m].event_id].expires_at, RETENTION_DAYS))

\* the row fetchCleanupCandidates selects for media row m
MediaCleanupRow(m) ==
  [media_id |-> m, event_id |-> media[m].event_id, status |-> media[m].status,
   uploader_name |-> COALESCE(media[m].uploader_name,
                              device_sessions[media[m].device_session_id].display_name),
   tags |-> media[m].tags]

RECURSIVE CandidatesUpTo(_)
CandidatesUpTo(n) ==
  IF n = 0 THEN <<>>
  ELSE IF IsCleanupCandidate(n) THEN Append(CandidatesUpTo(n - 1), MediaCleanupRow(n))
       ELSE CandidatesUpTo(n - 1)

\* fetchCleanupCandidates: ORDER BY created_at ASC LIMIT limit
fetchCleanupCandidates(limit) ==
  SubSeq(CandidatesUpTo(Len(media)), 1, Min(limit, Len(CandidatesUpTo(Len(media)))))

\* the run's position and counts once it is through with the head of its queue:
\* cleaned += 1 after markCleanupSuccess, failed += 1 in the catch
AfterItem(w, clean) ==
  [sweep EXCEPT ![w].pc = IF Len(sweep[w].queue) > 1 THEN "delete_original" ELSE "rebuild",
                ![w].queue = Tail(sweep[w].queue),
                ![w].cleaned = IF clean THEN @ + 1 ELSE @,
                ![w].failed = IF clean THEN @ ELSE @ + 1]

\* runMediaRetentionCleanupOnce starts: the candidates are read
sweep_fetch(w) ==
  /\ sweep[w].pc = "idle"
  /\ LET c == fetchCleanupCandidates(MAX_MEDIA_PER_RUN)
     IN sweep' = [sweep EXCEPT ![w] =
          [pc |-> IF c = <<>> THEN "rebuild" ELSE "delete_original", queue |-> c,
           processed |-> Len(c), cleaned |-> 0, failed |-> 0, staged |-> EmptyFacets]]
  /\ UNCHANGED <<events, device_sessions, media, uploader_facets, tag_facets, blobs, rowLock,
                 proc, now, thumbs>>

\* lib/storage deleteStorageObject on the originals bucket: the object is gone, or it throws
sweep_deleteOriginal(w, ok) ==
  /\ sweep[w].pc = "delete_original"
  /\ IF ok
     THEN /\ blobs' = blobs \ {Head(sweep[w].queue).media_id}
          /\ sweep' = [sweep EXCEPT ![w].pc = "delete_thumb"]
     ELSE /\ UNCHANGED blobs
          /\ sweep' = [sweep EXCEPT ![w].pc = "failure"]
  /\ UNCHANGED <<events, device_sessions, media, uploader_facets, tag_facets, rowLock,
                 proc, now, thumbs>>

\* variant: a failed delete of the thumbnail is passed over
sweep_deleteThumb_IgnoreFailure(w, ok) ==
  /\ sweep[w].pc = "delete_thumb"
  /\ thumbs' = IF ok THEN thumbs \ {Head(sweep[w].queue).media_id} ELSE thumbs
  /\ sweep' = [sweep EXCEPT ![w].pc = "success"]
  /\ UNCHANGED <<events, device_sessions, media, uploader_facets, tag_facets, blobs, rowLock,
                 proc, now>>

\* lib/storage deleteStorageObject on the thumbs bucket
sweep_deleteThumb(w, ok) ==
  /\ sweep[w].pc = "delete_thumb"
  /\ IF ok
     THEN /\ thumbs' = thumbs \ {Head(sweep[w].queue).media_id}
          /\ sweep' = [sweep EXCEPT ![w].pc = "success"]
     ELSE /\ UNCHANGED thumbs
          /\ sweep' = [sweep EXCEPT ![w].pc = "failure"]
  /\ UNCHANGED <<events, device_sessions, media, uploader_facets, tag_facets, blobs, rowLock,
                 proc, now>>

\* markCleanupSuccess: the UPDATE by id and the decrement, committed together
markCleanupSuccess(w) ==
  /\ sweep[w].pc = "success"
  /\ LET item == Head(sweep[w].queue)
     IN /\ rowLock[item.media_id] = 0
        /\ isFacetTrackedMediaStatus(item.status) /\ TouchesFacets(item) => ~FacetTablesLocked
        /\ media' = [media EXCEPT ![item.media_id].status = "expired",
                                  ![item.media_id].storage_deleted_at = TRUE,
                                  ![item.media_id].storage_last_delete_error = FALSE]
        /\ IF isFacetTrackedMediaStatus(item.status)
           THEN /\ uploader_facets' = removeMediaFromGalleryFacets_uploader(uploader_facets, item)
                /\ tag_facets' = removeMediaFromGalleryFacets_tags(tag_facets, item)
           ELSE UNCHANGED <<uploader_facets, tag_facets>>
  /\ sweep' = AfterItem(w, TRUE)
  /\ UNCHANGED <<events, device_sessions, blobs, rowLock, proc, now, thumbs>>

\* a statement of markCleanupSuccess fails: withTransaction rolls back, the catch takes over
markCleanupSuccess_rollback(w) ==
  /\ sweep[w].pc = "success"
  /\ sweep' = [sweep EXCEPT ![w].pc = "failure"]
  /\ UNCHANGED <<events, device_sessions, media, uploader_facets, tag_facets, blobs, rowLock,
                 proc, now, thumbs>>

\* variant: a failed cleanup gives the row up
markCleanupFailure_Expire(w) ==
  /\ sweep[w].pc = "failure"
  /\ LET m == Head(sweep[w].queue).media_id
     IN /\ rowLock[m] = 0
        /\ media[m].storage_delete_attempts < MaxAttempts
        /\ media' = [media EXCEPT ![m].storage_delete_attempts = @ + 1,
                                  ![m].storage_last_delete_error = TRUE,
                                  ![m].status = "expired"]
  /\ sweep' = AfterItem(w, FALSE)
  /\ UNCHANGED <<events, device_sessions, uploader_facets, tag_facets, blobs, rowLock,
                 proc, now, thumbs>>

\* markCleanupFailure: one more attempt, the error text
markCleanupFailure(w) ==
  /\ sweep[w].pc = "failure"
  /\ LET m == Head(sweep[w].queue).media_id
     IN /\ rowLock[m] = 0
        /\ media[m].storage_delete_attempts < MaxAttempts
        /\ media' = [media EXCEPT ![m].storage_delete_attempts = @ + 1,
                                  ![m].storage_last_delete_error = TRUE]
  /\ sweep' = AfterItem(w, FALSE)
  /\ UNCHANGED <<events, device_sessions, uploader_facets, tag_facets, blobs, rowLock,
                 proc, now, thumbs>>

\* the UPDATE of markCleanupFailure throws inside the catch: nothing is written
\* and the run is over, rejected, with the rest of its candidates unvisited
markCleanupFailure_rejected(w) ==
  /\ sweep[w].pc = "failure"
  /\ sweep' = [sweep EXCEPT ![w] = SweepIdle]
  /\ UNCHANGED <<events, device_sessions, media, uploader_facets, tag_facets, blobs, rowLock,
                 proc, now, thumbs>>

\* rebuildGalleryFacets, the last step of the run
rebuildGalleryFacets(w) ==
  /\ sweep[w].pc = "rebuild"
  /\ uploader_facets' = rebuildGalleryFacets_uploader
  /\ tag_facets' = rebuildGalleryFacets_tags
  /\ sweep' = [sweep EXCEPT ![w] = SweepIdle]
  /\ UNCHANGED <<events, device_sessions, media, blobs, rowLock, proc, now, thumbs>>

\* rebuildGalleryFacets statement by statement.  BEGIN and TRUNCATE: the lock on both
\* tables is granted once no other rebuild holds it
rebuild_truncate(w) ==
  /\ sweep[w].pc = "rebuild"
  /\ ~FacetTablesLocked
  /\ sweep' = [sweep EXCEPT ![w].pc = "truncated"]
  /\ UNCHANGED <<events, device_sessions, media, uploader_facets, tag_facets, blobs, rowLock,
                 proc, now, thumbs>>

\* INSERT INTO event_uploader_facets .. SELECT over the media rows committed by now
rebuild_insertUploaders(w) ==
  /\ sweep[w].pc = "truncated"
  /\ sweep' = [sweep EXCEPT ![w].pc = "uploaders_inserted",
                            ![w].staged = rebuildGalleryFacets_uploader]
  /\ UNCHANGED <<events, device_sessions, media, uploader_facets, tag_facets, blobs, rowLock,
                 proc, now, thumbs>>

\* INSERT INTO event_tag_facets .. SELECT and COMMIT: both tables replaced, the lock released
rebuild_commit(w) ==
  /\ sweep[w].pc = "uploaders_inserted"
  /\ uploader_facets' = sweep[w].staged
  /\ tag_facets' = rebuildGalleryFacets_tags
  /\ sweep' = [sweep EXCEPT ![w] = SweepIdle]
  /\ UNCHANGED <<events, device_sessions, media, blobs, rowLock, proc, now, thumbs>>

\* GET /events/:id/gallery/facets with uploader_q = q: the SELECT on event_uploader_facets
\* returns the persisted counter, or queues behind the lock a rebuild holds
getGalleryFacets(p, e, q) ==
  /\ proc[p].op = "idle"
  /\ proc' = [proc EXCEPT ![p] =
       IF FacetTablesLocked
       THEN [Idle EXCEPT !.op = "getGalleryFacets", !.pc = "waiting", !.e = e, !.name = q]
       ELSE [Idle EXCEPT !.op = "getGalleryFacets", !.pc = "done", !.e = e, !.name = q,
                         !.cnt = Count(uploader_facets, <<e, q>>), !.result = "OK"]]
  /\ UNCHANGED <<events, device_sessions, media, uploader_facets, tag_facets, blobs, rowLock>>
  /\ UNCHANGED jobVars

\* the rebuild has committed: the queued SELECT runs and returns what it finds
getGalleryFacets_granted(p) ==
  /\ proc[p].op = "getGalleryFacets" /\ proc[p].pc = "waiting"
  /\ ~FacetTablesLocked
  /\ proc' = [proc EXCEPT ![p].pc = "done", ![p].result = "OK",
                          ![p].cnt = Count(uploader_facets, <<proc[p].e, proc[p].name>>)]
  /\ UNCHANGED <<events, device_sessions, media, uploader_facets, tag_facets, blobs, rowLock>>
  /\ UNCHANGED jobVars

\* ------------------------------------------------------------------ specifications
NextJoin ==
  \/ \E p \in Procs, e \in Events, n \in JoinNames : joinEvent_getEventBySlug(p, e, n)
  \/ \E p \in Procs : joinEvent_guest_check(p)
  \/ \E p \in Procs : joinEvent_inserted(p)
  \/ \E p \in Procs : Return(p)
  \/ \E e \in Events, s \in 1..MaxSessions : deactivateGuest(e, s)

\* guests joining, the organizer deactivating them
SpecJoin == Init /\ [][NextJoin]_vars

\* three guests have joined the event: "A", one without a name, and "B" whom the
\* organizer has deactivated
InitMedia ==
  /\ \E mu \in 1..MaxCeiling :
       events = [e \in Events |->
                   [status |-> "active", max_guests |-> MaxSessions, max_uploads_per_guest |-> mu,
                    event_date |-> EVENT_DATE, end_date |-> END_DATE,
                    expires_at |-> toEventCloseIso(END_DATE),
                  compression_mode |-> "compressed", total_fee |-> 0,
                  name |-> "party", pin_hash |-> NULL]]
  /\ device_sessions =
       <<[event_id |-> 1, display_name |-> <<"A">>, is_active |-> TRUE],
         [event_id |-> 1, display_name |-> NULL, is_active |-> TRUE],
         [event_id |-> 1, display_name |-> <<"B">>, is_active |-> FALSE]>>
  /\ media = <<>>
  /\ uploader_facets = EmptyFacets
  /\ tag_facets = EmptyFacets
  /\ blobs = {}
  /\ rowLock = [m \in 1..MaxMedia |-> 0]
  /\ proc = [p \in Procs |-> Idle]
  /\ now = WhileOpen
  /\ thumbs = {}
  /\ sweep = [w \in Sweepers |-> SweepIdle]

NextMedia ==
  \/ \E p \in Procs, s \in 1..MaxSessions, t \in TagInputs : createUpload_resolveSession(p, s, t)
  \/ \E p \in Procs : createUpload_quota_check(p)
  \/ \E p \in Procs : createUpload_inserted(p)
  \/ \E m \in 1..MaxMedia : ClientPutObject(m)
  \/ \E p \in Procs, s \in 1..MaxSessions, m \in 1..MaxMedia : completeUpload_select(p, s, m)
  \/ \E p \in Procs, a \in BOOLEAN : completeUpload_verify(p, a)
  \/ \E p \in Procs : completeUpload_update(p)
  \/ \E p \in Procs : completeUpload_commit(p)
  \/ \E p \in Procs : completeUpload_rollback(p)
  \/ \E e \in Events, m \in 1..MaxMedia : hideMedia(e, m)
  \/ \E e \in Events, m \in 1..MaxMedia : unhideMedia(e, m)
  \/ \E e \in Events, ids \in SUBSET (1..MaxMedia) : bulkHideMedia(e, ids)
  \/ \E p \in Procs : Return(p)

\* guests uploading, the organizer moderating
SpecMedia == InitMedia /\ [][NextMedia]_vars

\* ------------------------------------------------------------------ lifecycle
\* time passes
Tick ==
  /\ \E t \in Instants : Before(now, t) /\ now' = t
  /\ UNCHANGED <<events, device_sessions, media, uploader_facets, tag_facets, blobs, rowLock,
                 proc, thumbs, sweep>>

\* endDate < eventDate, on YYYY-MM-DD strings
DateBefore(a, b) ==
  \/ a[1] < b[1]
  \/ a[1] = b[1] /\ a[2] < b[2]
  \/ a[1] = b[1] /\ a[2] = b[2] /\ a[3] < b[3]

\* Math.ceil(a / b) for a >= 0, b > 0
Ceil(a, b) == (a + b - 1) \div b

DEFAULT_COMPRESSION_MODE == "compressed"

\* the fee of an event, in minor units
calculateTotalFeeMinor(maxGuests, maxUploadsPerGuest, compressionMode) ==
  LET guestBlocks == Ceil(maxGuests, 100)
      extraGuestBlocks == Max(0, guestBlocks - 1)
      extraUploadBlocks == Ceil(Max(0, maxUploadsPerGuest - 10), 10)
      guestCostMajor == extraGuestBlocks * 200
      uploadCostMajor == extraUploadBlocks * guestBlocks * 100
      rawCostMajor == IF compressionMode = "raw" THEN maxGuests * maxUploadsPerGuest ELSE 0
  IN (guestCostMajor + uploadCostMajor + rawCostMajor) * 100

\* OrganizerService.createEvent (a free event): the row with its status and expires_at
createEvent(e, eventDate, endDate, maxGuests, maxUploadsPerGuest) ==
  /\ events[e].status = "none"
  /\ ~DateBefore(endDate, eventDate)
  /\ events' = [events EXCEPT ![e] =
       [status |-> resolveEventStatus(eventDate, endDate),
        max_guests |-> maxGuests, max_uploads_per_guest |-> maxUploadsPerGuest,
        event_date |-> eventDate, end_date |-> endDate,
        expires_at |-> toEventCloseIso(endDate),
        compression_mode |-> DEFAULT_COMPRESSION_MODE,
        total_fee |-> calculateTotalFeeMinor(maxGuests, maxUploadsPerGuest, DEFAULT_COMPRESSION_MODE),
        name |-> "party", pin_hash |-> NULL]]
  /\ UNCHANGED <<device_sessions, media, uploader_facets, tag_facets, blobs, rowLock, proc>>
  /\ UNCHANGED jobVars

\* cron/event-status-cron runEventStatusSyncOnce: the stored status catches up with the clock
runEventStatusSyncOnce ==
  /\ events' = [e \in Events |->
       IF events[e].status \in {"draft", "active", "closed"}
       THEN [events[e] EXCEPT !.status = resolveEventStatus(events[e].event_date, events[e].end_date)]
       ELSE events[e]]
  /\ events' # events
  /\ UNCHANGED <<device_sessions, media, uploader_facets, tag_facets, blobs, rowLock, proc>>
  /\ UNCHANGED jobVars

\* no event yet, at any time of the clock
InitClock ==
  /\ events = [e \in Events |->
                 [status |-> "none", max_guests |-> 0, max_uploads_per_guest |-> 0,
                  event_date |-> EVENT_DATE, end_date |-> END_DATE,
                  expires_at |-> toEventCloseIso(END_DATE),
                  compression_mode |-> "compressed", total_fee |-> 0,
                  name |-> "party", pin_hash |-> NULL]]
  /\ device_sessions = <<>>
  /\ media = <<>>
  /\ uploader_facets = EmptyFacets
  /\ tag_facets = EmptyFacets
  /\ blobs = {}
  /\ rowLock = [m \in 1..MaxMedia |-> 0]
  /\ proc = [p \in Procs |-> Idle]
  /\ now \in Instants
  /\ thumbs = {}
  /\ sweep = [w \in Sweepers |-> SweepIdle]

NextClock ==
  \/ Tick
  \/ \E e \in Events, d1 \in Dates, d2 \in Dates, c \in 1..MaxCeiling : createEvent(e, d1, d2, c, c)
  \/ runEventStatusSyncOnce
  \/ \E e \in Events : joinEvent_getEventBySlug(1, e, NULL)
  \/ joinEvent_guest_check(1)
  \/ joinEvent_inserted(1)
  \/ \E s \in 1..MaxSessions : createUpload_resolveSession(1, s, <<>>)
  \/ createUpload_quota_check(1)
  \/ createUpload_inserted(1)
  \/ Return(1)

\* one guest at a time, while the clock runs and the sync job comes when it comes
SpecClock == InitClock /\ [][NextClock]_vars

\* a media row as createUpload inserted it for session s, in a later status
MediaRowOf(s, name, tags, status, finalized) ==
  [event_id |-> 1, device_session_id |-> s, status |-> status, uploader_name |-> name,
   tags |-> tags, created_at |-> WhileOpen, uploaded_at |-> finalized,
   storage_deleted_at |-> FALSE,
   storage_delete_attempts |-> 0, storage_last_delete_error |-> FALSE]

\* the rows two guests have left behind, "A" with a tag and one without a name
\* and without tags: reserved, finalized, or finalized and hidden
LeftBehind ==
  {MediaRowOf(sn[1], sn[2], ensureTags(sn[3]), st[1], st[2]) :
     sn \in {<<1, <<"A">>, <<<<"X">>, <<"x", SPACE>>>>>>, <<2, NULL, <<>>>>},
     st \in {<<"pending", FALSE>>, <<"uploaded", TRUE>>, <<"hidden", TRUE>>}}

\* the ledger completeUpload has built for the finalized rows among rows 1..n
RECURSIVE UploaderLedgerOf(_, _)
UploaderLedgerOf(rows, n) ==
  IF n = 0 THEN EmptyFacets
  ELSE IF rows[n].uploaded_at
       THEN addMediaToGalleryFacets_uploader(UploaderLedgerOf(rows, n - 1), rows[n])
       ELSE UploaderLedgerOf(rows, n - 1)

RECURSIVE TagLedgerOf(_, _)
TagLedgerOf(rows, n) ==
  IF n = 0 THEN EmptyFacets
  ELSE IF rows[n].uploaded_at
       THEN addMediaToGalleryFacets_tags(TagLedgerOf(rows, n - 1), rows[n])
       ELSE TagLedgerOf(rows, n - 1)

\* the event is closed and its retention window has just run out
InitSweep ==
  /\ events = [e \in Events |->
                 [status |-> "closed", max_guests |-> MaxSessions, max_uploads_per_guest |-> MaxCeiling,
                  event_date |-> EVENT_DATE, end_date |-> END_DATE,
                  expires_at |-> toEventCloseIso(END_DATE),
                  compression_mode |-> "compressed", total_fee |-> 0,
                  name |-> "party", pin_hash |-> NULL]]
  /\ device_sessions =
       <<[event_id |-> 1, display_name |-> <<"A">>, is_active |-> TRUE],
         [event_id |-> 1, display_name |-> NULL, is_active |-> TRUE],
         [event_id |-> 1, display_name |-> <<"B">>, is_active |-> FALSE]>>
  /\ media \in [1..MaxMedia -> LeftBehind]
  /\ uploader_facets = UploaderLedgerOf(media, Len(media))
  /\ tag_facets = TagLedgerOf(media, Len(media))
  /\ blobs = 1..MaxMedia
  /\ thumbs = blobs
  /\ rowLock = [m \in 1..MaxMedia |-> 0]
  /\ proc = [p \in Procs |-> Idle]
  /\ now = AddDays(toEventCloseIso(END_DATE), RETENTION_DAYS)
  /\ sweep = [w \in Sweepers |-> SweepIdle]

NextSweep ==
  \/ \E w \in Sweepers : sweep_fetch(w)
  \/ \E w \in Sweepers, ok \in BOOLEAN : sweep_deleteOriginal(w, ok)
  \/ \E w \in Sweepers, ok \in BOOLEAN : sweep_deleteThumb(w, ok)
  \/ \E w \in Sweepers : markCleanupSuccess(w)
  \/ \E w \in Sweepers : markCleanupSuccess_rollback(w)
  \/ \E w \in Sweepers : markCleanupFailure(w)
  \/ \E w \in Sweepers : rebuildGalleryFacets(w)
  \/ \E n \in JoinNames : patchMySession(2, n)
  \/ \E m \in 1..MaxMedia : completeUpload_select(1, 1, m)
  \/ \E a \in BOOLEAN : completeUpload_verify(1, a)
  \/ completeUpload_update(1)
  \/ completeUpload_commit(1)
  \/ completeUpload_rollback(1)
  \/ Return(1)

\* overlapping cleanup runs on a closed event, guest "A" finalizing late, the guest
\* without a name taking one
SpecSweep == InitSweep /\ [][NextSweep]_vars

\* ------------------------------------------------------------------ the rebuild at work
NextRebuild ==
  \/ \E w \in Sweepers : sweep_fetch(w)
  \/ \E w \in Sweepers, ok \in BOOLEAN : sweep_deleteOriginal(w, ok)
  \/ \E w \in Sweepers : sweep_deleteThumb(w, TRUE)
  \/ \E w \in Sweepers : markCleanupSuccess(w)
  \/ \E w \in Sweepers : markCleanupFailure(w)
  \/ \E w \in Sweepers : rebuild_truncate(w)
  \/ \E w \in Sweepers : rebuild_insertUploaders(w)
  \/ \E w \in Sweepers : rebuild_commit(w)
  \/ \E n \in JoinNames : patchMySession(2, n)
  \/ \E s \in {1, 2}, m \in 1..MaxMedia : completeUpload_select(1, s, m)
  \/ completeUpload_verify(1, TRUE)
  \/ completeUpload_update(1)
  \/ completeUpload_commit(1)
  \/ Return(1)

\* overlapping cleanup runs whose rebuild is a transaction of three statements, next
\* to guests finalizing late and a guest renaming themself
SpecRebuild == InitSweep /\ [][NextRebuild]_vars

\* ------------------------------------------------------------------ the facet listing
NextFacetRead ==
  \/ sweep_fetch(1)
  \/ \E ok \in BOOLEAN : sweep_deleteOriginal(1, ok)
  \/ \E ok \in BOOLEAN : sweep_deleteThumb(1, ok)
  \/ markCleanupSuccess(1)
  \/ markCleanupFailure(1)
  \/ rebuild_truncate(1)
  \/ rebuild_insertUploaders(1)
  \/ rebuild_commit(1)
  \/ \E m \in 1..MaxMedia : completeUpload_select(1, 1, m)
  \/ completeUpload_verify(1, TRUE)
  \/ completeUpload_update(1)
  \/ completeUpload_commit(1)
  \/ \E q \in {<<"A">>, <<"B">>} : getGalleryFacets(2, 1, q)
  \/ getGalleryFacets_granted(2)
  \/ \E p \in Procs : Return(p)

\* the organizer listing the facets while a cleanup run and a late finalize are at work
SpecFacetRead == InitSweep /\ [][NextFacetRead]_vars

\* ------------------------------------------------------------------ run after run
\* the batch of a run, scaled to the rows followed: one row fewer than there are
BatchLimit == MaxMedia - 1

\* runMediaRetentionCleanupOnce starts: the oldest BatchLimit candidates are read
\* (rows are numbered in the order of created_at)
sweep_fetchBatch(w) ==
  /\ sweep[w].pc = "idle"
  /\ LET c == fetchCleanupCandidates(BatchLimit)
     IN sweep' = [sweep EXCEPT ![w] =
          [pc |-> IF c = <<>> THEN "rebuild" ELSE "delete_original", queue |-> c,
           processed |-> Len(c), cleaned |-> 0, failed |-> 0, staged |-> EmptyFacets]]
  /\ UNCHANGED <<events, device_sessions, media, uploader_facets, tag_facets, blobs, rowLock,
                 proc, now, thumbs>>

\* markCleanupFailure on a row that has failed before: the error is written again;
\* storage_delete_attempts, which no statement reads, is followed up to MaxAttempts
markCleanupFailure_again(w) ==
  /\ sweep[w].pc = "failure"
  /\ LET m == Head(sweep[w].queue).media_id
     IN /\ rowLock[m] = 0
        /\ media[m].storage_delete_attempts = MaxAttempts
        /\ media' = [media EXCEPT ![m].storage_last_delete_error = TRUE]
  /\ sweep' = AfterItem(w, FALSE)
  /\ UNCHANGED <<events, device_sessions, uploader_facets, tag_facets, blobs, rowLock,
                 proc, now, thumbs>>

NextStarve ==
  \/ sweep_fetchBatch(1)
  \/ \E ok \in BOOLEAN : sweep_deleteOriginal(1, ok)
  \/ \E ok \in BOOLEAN : sweep_deleteThumb(1, ok)
  \/ markCleanupSuccess(1)
  \/ markCleanupFailure(1)
  \/ markCleanupFailure_again(1)
  \/ rebuildGalleryFacets(1)

\* the store deletes an object of the newest row
NewestOriginalDeleted ==
  /\ sweep[1].pc = "delete_original" /\ Head(sweep[1].queue).media_id = MaxMedia
  /\ sweep_deleteOriginal(1, TRUE)

NewestThumbDeleted ==
  /\ sweep[1].pc = "delete_thumb" /\ Head(sweep[1].queue).media_id = MaxMedia
  /\ sweep_deleteThumb(1, TRUE)

\* the daily run comes again and again and each run goes through its steps; the
\* store may refuse any delete any number of times, except that a delete of the
\* newest row's objects that is tried again and again succeeds in the end
SpecStarve ==
  /\ InitSweep
  /\ [][NextStarve]_vars
  /\ WF_vars(NextStarve)
  /\ SF_vars(NewestOriginalDeleted)
  /\ SF_vars(NewestThumbDeleted)

\* ------------------------------------------------------------------ one cleanup run
NextRun ==
  \/ sweep_fetch(1)
  \/ \E ok \in BOOLEAN : sweep_deleteOriginal(1, ok)
  \/ \E ok \in BOOLEAN : sweep_deleteThumb(1, ok)
  \/ markCleanupSuccess(1)
  \/ markCleanupSuccess_rollback(1)
  \/ markCleanupFailure(1)
  \/ markCleanupFailure_rejected(1)
  \/ rebuildGalleryFacets(1)
  \/ \E n \in JoinNames : patchMySession(2, n)

\* one cleanup run at a time on a closed event past its retention window, where
\* a statement may fail, while the guest without a name takes one
SpecRun == InitSweep /\ [][NextRun]_vars

\* ------------------------------------------------------------------ orphans
\* a pending upload is cleaned up after this many minutes, as the guest flow has it
PENDING_CLEANUP_MINUTES == 30

\* time passes, up to the last millisecond before the event closes
TickWhileOpen ==
  /\ \E t \in Instants :
       /\ Before(now, t)
       /\ ~Before(eventCloseAtMs(END_DATE), t)
       /\ now' = t
  /\ UNCHANGED <<events, device_sessions, media, uploader_facets, tag_facets, blobs, rowLock,
                 proc, thumbs, sweep>>

\* an event of one guest and one upload per guest, created the day before it opens
InitOrphan ==
  /\ events = [e \in Events |->
                 [status |-> "draft", max_guests |-> 1, max_uploads_per_guest |-> 1,
                  event_date |-> EVENT_DATE, end_date |-> END_DATE,
                  expires_at |-> toEventCloseIso(END_DATE),
                  compression_mode |-> "compressed", total_fee |-> 0,
                  name |-> "party", pin_hash |-> NULL]]
  /\ device_sessions = <<>>
  /\ media = <<>>
  /\ uploader_facets = EmptyFacets
  /\ tag_facets = EmptyFacets
  /\ blobs = {}
  /\ rowLock = [m \in 1..MaxMedia |-> 0]
  /\ proc = [p \in Procs |-> Idle]
  /\ now = At(<<2026, 2, 13>>, 10, 59, 59, 999)
  /\ thumbs = {}
  /\ sweep = [w \in Sweepers |-> SweepIdle]

\* the guest's requests; the upload is never put and never finalized
GuestOrphan ==
  \/ \E e \in Events, n \in JoinNames : joinEvent_getEventBySlug(1, e, n)
  \/ joinEvent_guest_check(1)
  \/ joinEvent_inserted(1)
  \/ \E s \in 1..MaxSessions : createUpload_resolveSession(1, s, <<>>)
  \/ createUpload_quota_check(1)
  \/ createUpload_inserted(1)
  \/ Return(1)

\* the jobs the server runs: the status sync and the cleanup, which finds no
\* candidate in an event that is not closed and goes on to the rebuild
JobsOrphan ==
  \/ runEventStatusSyncOnce
  \/ sweep_fetch(1)
  \/ rebuildGalleryFacets(1)

NextOrphan == TickWhileOpen \/ GuestOrphan \/ JobsOrphan

\* time passes, every scheduled job runs again and again, every request that
\* was received is served to its end
SpecOrphan ==
  /\ InitOrphan
  /\ [][NextOrphan]_vars
  /\ WF_vars(TickWhileOpen)
  /\ WF_vars(JobsOrphan)
  /\ WF_vars(joinEvent_guest_check(1) \/ joinEvent_inserted(1) \/ createUpload_quota_check(1)
               \/ createUpload_inserted(1) \/ Return(1))

\* ------------------------------------------------------------------ event administration
\* a field the request body does not carry is <<>>, one it carries is <<value>>
Given(field) == field # <<>>

\* Date.now() >= eventOpenAtMs(event_date)
eventSettingsLocked(event) == ~Before(now, eventOpenAtMs(event.event_date))

\* /^\d{4}$/
PIN_REGEX(pin) ==
  /\ Len(pin) = 4
  /\ \A i \in 1..4 : pin[i] \in {"0", "1", "2", "3", "4", "5", "6", "7", "8", "9"}

\* sha256 of the pin
hashPin(pin) == <<"sha256">> \o pin

\* the bodies of PATCH /events/:id: one field each, a pin to clear, a pin that is
\* not four digits, a ceiling that is not positive
PatchEventInputs ==
  LET none == [name |-> <<>>, max_guests |-> <<>>, max_uploads_per_guest |-> <<>>,
               compression_mode |-> <<>>, pin |-> <<>>]
  IN {[none EXCEPT !.name = <<"gala">>],
      [none EXCEPT !.pin = <<<<"1", "2", "3", "4">>>>],
      [none EXCEPT !.pin = <<<<>>>>],
      [none EXCEPT !.pin = <<<<"1", "2">>>>],
      [none EXCEPT !.compression_mode = <<"raw">>],
      [none EXCEPT !.compression_mode = <<"compressed">>]}
  \cup {[none EXCEPT !.max_guests = <<c>>] : c \in 0..MaxCeiling}
  \cup {[none EXCEPT !.max_uploads_per_guest = <<c>>] : c \in 1..MaxCeiling}

\* OrganizerService.patchEvent up to its UPDATE: the row is read, the request
\* checked against it and against the clock
patchEvent_read(p, e, input) ==
  /\ proc[p].op = "idle"
  /\ events[e].status # "none"
  /\ LET current == events[e]
         capacityTouched ==
           Given(input.max_guests) \/ Given(input.max_uploads_per_guest) \/ Given(input.compression_mode)
         nextName == IF Given(input.name) THEN input.name[1] ELSE current.name
         nextMaxGuests == IF Given(input.max_guests) THEN input.max_guests[1] ELSE current.max_guests
         nextMaxUploadsPerGuest ==
           IF Given(input.max_uploads_per_guest) THEN input.max_uploads_per_guest[1]
           ELSE current.max_uploads_per_guest
         nextCompressionMode ==
           IF Given(input.compression_mode) THEN input.compression_mode[1] ELSE current.compression_mode
         nextFee == calculateTotalFeeMinor(nextMaxGuests, nextMaxUploadsPerGuest, nextCompressionMode)
         feeDifference == nextFee - current.total_fee
         nextPinHash ==
           IF ~Given(input.pin) THEN current.pin_hash
           ELSE IF input.pin[1] = <<>> THEN NULL ELSE hashPin(input.pin[1])
         r == [op |-> "patchEvent", pc |-> "done", e |-> e, touched |-> capacityTouched,
               next |-> <<>>, result |-> ""]
     IN proc' = [proc EXCEPT ![p] =
          IF capacityTouched /\ eventSettingsLocked(current)
          THEN [r EXCEPT !.result = "EVENT_SETTINGS_LOCKED"]
          ELSE IF nextMaxGuests < 1 \/ nextMaxUploadsPerGuest < 1
          THEN [r EXCEPT !.result = "VALIDATION_ERROR"]
          ELSE IF capacityTouched /\ feeDifference > 0
          THEN [r EXCEPT !.result = "payment_required"]
          ELSE IF Given(input.pin) /\ input.pin[1] # <<>> /\ ~PIN_REGEX(input.pin[1])
          THEN [r EXCEPT !.result = "VALIDATION_ERROR"]
          ELSE [r EXCEPT !.pc = "update",
                         !.next = [current EXCEPT !.name = nextName,
                                                  !.max_guests = nextMaxGuests,
                                                  !.max_uploads_per_guest = nextMaxUploadsPerGuest,
                                                  !.compression_mode = nextCompressionMode,
                                                  !.total_fee = nextFee,
                                                  !.pin_hash = nextPinHash]]]
  /\ UNCHANGED <<events, device_sessions, media, uploader_facets, tag_facets, blobs, rowLock>>
  /\ UNCHANGED jobVars

\* UPDATE events SET name, max_guests, max_uploads_per_guest, compression_mode,
\* total_fee, pin_hash WHERE id = e
patchEvent_update(p) ==
  /\ proc[p].op = "patchEvent" /\ proc[p].pc = "update"
  /\ LET e == proc[p].e
         next == proc[p].next
     IN events' = [events EXCEPT ![e].name = next.name,
                                 ![e].max_guests = next.max_guests,
                                 ![e].max_uploads_per_guest = next.max_uploads_per_guest,
                                 ![e].compression_mode = next.compression_mode,
                                 ![e].total_fee = next.total_fee,
                                 ![e].pin_hash = next.pin_hash]
  /\ proc' = [proc EXCEPT ![p].pc = "done", ![p].next = <<>>, ![p].result = "OK"]
  /\ UNCHANGED <<device_sessions, media, uploader_facets, tag_facets, blobs, rowLock>>
  /\ UNCHANGED jobVars

\* the bodies of PUT /events/:id/capacity
CapacityUpdateInputs ==
  [max_guests : 0..MaxCeiling, max_uploads_per_guest : 1..MaxCeiling,
   compression_mode : {<<>>, <<"raw">>}]

\* OrganizerService.updateCapacity up to its UPDATE
updateCapacity_read(p, e, input) ==
  /\ proc[p].op = "idle"
  /\ events[e].status # "none"
  /\ LET current == events[e]
         nextCompressionMode ==
           IF Given(input.compression_mode) THEN input.compression_mode[1] ELSE current.compression_mode
         nextFee == calculateTotalFeeMinor(input.max_guests, input.max_uploads_per_guest,
                                           nextCompressionMode)
         r == [op |-> "updateCapacity", pc |-> "done", e |-> e, touched |-> TRUE,
               next |-> <<>>, result |-> ""]
     IN proc' = [proc EXCEPT ![p] =
          IF eventSettingsLocked(current)
          THEN [r EXCEPT !.result = "EVENT_SETTINGS_LOCKED"]
          ELSE IF input.max_guests < 1 \/ input.max_uploads_per_guest < 1
          THEN [r EXCEPT !.result = "VALIDATION_ERROR"]
          ELSE IF nextFee - current.total_fee > 0
          THEN [r EXCEPT !.result = "payment_required"]
          ELSE [r EXCEPT !.pc = "update",
                         !.next = [current EXCEPT !.max_guests = input.max_guests,
                                                  !.max_uploads_per_guest = input.max_uploads_per_guest,
                                                  !.compression_mode = nextCompressionMode,
                                                  !.total_fee = nextFee]]]
  /\ UNCHANGED <<events, device_sessions, media, uploader_facets, tag_facets, blobs, rowLock>>
  /\ UNCHANGED jobVars

\* UPDATE events SET max_guests, max_uploads_per_guest, compression_mode, total_fee WHERE id = e
updateCapacity_update(p) ==
  /\ proc[p].op = "updateCapacity" /\ proc[p].pc = "update"
  /\ LET e == proc[p].e
         next == proc[p].next
     IN events' = [events EXCEPT ![e].max_guests = next.max_guests,
                                 ![e].max_uploads_per_guest = next.max_uploads_per_guest,
                                 ![e].compression_mode = next.compression_mode,
                                 ![e].total_fee = next.total_fee]
  /\ proc' = [proc EXCEPT ![p].pc = "done", ![p].next = <<>>, ![p].result = "OK"]
  /\ UNCHANGED <<device_sessions, media, uploader_facets, tag_facets, blobs, rowLock>>
  /\ UNCHANGED jobVars

\* OrganizerService.closeEvent up to its UPDATE: the row is read and its status tested
closeEvent_read(p, e) ==
  /\ proc[p].op = "idle"
  /\ events[e].status # "none"
  /\ LET r == [op |-> "closeEvent", pc |-> "done", e |-> e, touched |-> FALSE,
               next |-> <<>>, result |-> ""]
     IN proc' = [proc EXCEPT ![p] =
          IF events[e].status \in {"archived", "purged"}
          THEN [r EXCEPT !.result = "INVALID_EVENT_STATE"]
          ELSE [r EXCEPT !.pc = "update"]]
  /\ UNCHANGED <<events, device_sessions, media, uploader_facets, tag_facets, blobs, rowLock>>
  /\ UNCHANGED jobVars

\* UPDATE events SET status = 'closed' WHERE id = e
closeEvent_update(p) ==
  /\ proc[p].op = "closeEvent" /\ proc[p].pc = "update"
  /\ events' = [events EXCEPT ![proc[p].e].status = "closed"]
  /\ proc' = [proc EXCEPT ![p].pc = "done", ![p].next = <<>>, ![p].result = "OK"]
  /\ UNCHANGED <<device_sessions, media, uploader_facets, tag_facets, blobs, rowLock>>
  /\ UNCHANGED jobVars

\* OrganizerService.archiveEvent up to its UPDATE
archiveEvent_read(p, e) ==
  /\ proc[p].op = "idle"
  /\ events[e].status # "none"
  /\ LET r == [op |-> "archiveEvent", pc |-> "done", e |-> e, touched |-> FALSE,
               next |-> <<>>, result |-> ""]
     IN proc' = [proc EXCEPT ![p] =
          IF events[e].status = "purged"
          THEN [r EXCEPT !.result = "INVALID_EVENT_STATE"]
          ELSE [r EXCEPT !.pc = "update"]]
  /\ UNCHANGED <<events, device_sessions, media, uploader_facets, tag_facets, blobs, rowLock>>
  /\ UNCHANGED jobVars

\* UPDATE events SET status = 'archived' WHERE id = e
archiveEvent_update(p) ==
  /\ proc[p].op = "archiveEvent" /\ proc[p].pc = "update"
  /\ events' = [events EXCEPT ![proc[p].e].status = "archived"]
  /\ proc' = [proc EXCEPT ![p].pc = "done", ![p].next = <<>>, ![p].result = "OK"]
  /\ UNCHANGED <<device_sessions, media, uploader_facets, tag_facets, blobs, rowLock>>
  /\ UNCHANGED jobVars

\* the event as createEvent stored it the day before it opens
InitAdmin ==
  /\ \E c \in 1..MaxCeiling :
       events = [e \in Events |->
                 [status |-> "draft", max_guests |-> c, max_uploads_per_guest |-> c,
                  event_date |-> EVENT_DATE, end_date |-> END_DATE,
                  expires_at |-> toEventCloseIso(END_DATE),
                  compression_mode |-> DEFAULT_COMPRESSION_MODE,
                  total_fee |-> calculateTotalFeeMinor(c, c, DEFAULT_COMPRESSION_MODE),
                  name |-> "party", pin_hash |-> NULL]]
  /\ device_sessions = <<>>
  /\ media = <<>>
  /\ uploader_facets = EmptyFacets
  /\ tag_facets = EmptyFacets
  /\ blobs = {}
  /\ rowLock = [m \in 1..MaxMedia |-> 0]
  /\ proc = [p \in Procs |-> Idle]
  /\ now = At(<<2026, 2, 13>>, 10, 59, 59, 999)
  /\ thumbs = {}
  /\ sweep = [w \in Sweepers |-> SweepIdle]

NextAdmin ==
  \/ Tick
  \/ runEventStatusSyncOnce
  \/ \E e \in Events, input \in PatchEventInputs : patchEvent_read(1, e, input)
  \/ patchEvent_update(1)
  \/ \E e \in Events, input \in CapacityUpdateInputs : updateCapacity_read(1, e, input)
  \/ updateCapacity_update(1)
  \/ \E p \in Procs, e \in Events : closeEvent_read(p, e)
  \/ \E p \in Procs : closeEvent_update(p)
  \/ \E p \in Procs, e \in Events : archiveEvent_read(p, e)
  \/ \E p \in Procs : archiveEvent_update(p)
  \/ \E p \in Procs : Return(p)

\* the organizer's requests on one event, served concurrently, while the clock
\* runs and the status sync comes when it comes
SpecAdmin == InitAdmin /\ [][NextAdmin]_vars

\* ------------------------------------------------------------------ guest session requests
\* getMySession: the session resolved from its token, then its upload count read
getMySession(p, s) ==
  /\ proc[p].op = "idle"
  /\ s \in SessionIds
  /\ LET r == [Idle EXCEPT !.op = "getMySession", !.pc = "done", !.sid = s]
     IN proc' = [proc EXCEPT ![p] =
          IF resolveSessionFromToken(s) # ""
          THEN [r EXCEPT !.result = resolveSessionFromToken(s)]
          ELSE [r EXCEPT !.result = "OK"]]
  /\ UNCHANGED <<events, device_sessions, media, uploader_facets, tag_facets, blobs, rowLock>>
  /\ UNCHANGED jobVars

\* getMyUploads: the session resolved from its token, then its media rows listed
getMyUploads(p, s) ==
  /\ proc[p].op = "idle"
  /\ s \in SessionIds
  /\ LET r == [Idle EXCEPT !.op = "getMyUploads", !.pc = "done", !.sid = s]
     IN proc' = [proc EXCEPT ![p] =
          IF resolveSessionFromToken(s) # ""
          THEN [r EXCEPT !.result = resolveSessionFromToken(s)]
          ELSE [r EXCEPT !.result = "OK"]]
  /\ UNCHANGED <<events, device_sessions, media, uploader_facets, tag_facets, blobs, rowLock>>
  /\ UNCHANGED jobVars

\* the bodies of PATCH /my-session: without display_name, with null, with a name
PatchMySessionInputs == {<<>>, <<NULL>>, <<<<SPACE, "B">>>>}

\* patchMySession up to its UPDATE: the body is validated, the session resolved
patchMySession_resolveSession(p, s, input) ==
  /\ proc[p].op = "idle"
  /\ s \in SessionIds
  /\ LET r == [Idle EXCEPT !.op = "patchMySession", !.pc = "done", !.sid = s]
     IN proc' = [proc EXCEPT ![p] =
          IF input = <<>>
          THEN [r EXCEPT !.result = "VALIDATION_ERROR"]
          ELSE IF resolveSessionFromToken(s) # ""
          THEN [r EXCEPT !.result = resolveSessionFromToken(s)]
          ELSE [r EXCEPT !.pc = "update", !.name = ensureDisplayName(input[1])]]
  /\ UNCHANGED <<events, device_sessions, media, uploader_facets, tag_facets, blobs, rowLock>>
  /\ UNCHANGED jobVars

\* variant: the new name is written to the session's media rows too
patchMySession_update_Rewrite(p) ==
  /\ proc[p].op = "patchMySession" /\ proc[p].pc = "update"
  /\ device_sessions' = [device_sessions EXCEPT ![proc[p].sid].display_name = proc[p].name]
  /\ media' = [m \in MediaIds |->
                IF media[m].device_session_id = proc[p].sid
                THEN [media[m] EXCEPT !.uploader_name = proc[p].name]
                ELSE media[m]]
  /\ proc' = [proc EXCEPT ![p].pc = "done", ![p].result = "OK"]
  /\ UNCHANGED <<events, uploader_facets, tag_facets, blobs, rowLock>>
  /\ UNCHANGED jobVars

\* UPDATE device_sessions SET display_name = $1 WHERE id = $2
patchMySession_update(p) ==
  /\ proc[p].op = "patchMySession" /\ proc[p].pc = "update"
  /\ device_sessions' = [device_sessions EXCEPT ![proc[p].sid].display_name = proc[p].name]
  /\ proc' = [proc EXCEPT ![p].pc = "done", ![p].result = "OK"]
  /\ UNCHANGED <<events, media, uploader_facets, tag_facets, blobs, rowLock>>
  /\ UNCHANGED jobVars

\* the bodies of POST /uploads: file_type and file_size
FileTypeInputs ==
  {<<>>, <<SPACE>>, <<"image/jpeg">>, <<SPACE, "IMAGE/JPEG">>, <<"image/heic">>,
   <<"image/x-canon-cr2">>, <<"video/mp4">>}

FileSizeInputs ==
  {0, 1, MAX_FILE_SIZE_COMPRESSED, MAX_FILE_SIZE_COMPRESSED + 1,
   MAX_FILE_SIZE_RAW_STANDARD, MAX_FILE_SIZE_RAW_STANDARD + 1,
   MAX_FILE_SIZE_RAW_FAMILY, MAX_FILE_SIZE_RAW_FAMILY + 1}

\* two guests have joined an active event, "A" and one without a name
InitUpload ==
  /\ \E mode \in {"compressed", "raw"} :
       events = [e \in Events |->
                 [status |-> "active", max_guests |-> MaxSessions,
                  max_uploads_per_guest |-> MaxCeiling,
                  event_date |-> EVENT_DATE, end_date |-> END_DATE,
                  expires_at |-> toEventCloseIso(END_DATE),
                  compression_mode |-> mode,
                  total_fee |-> calculateTotalFeeMinor(MaxSessions, MaxCeiling, mode),
                  name |-> "party", pin_hash |-> NULL]]
  /\ device_sessions =
       <<[event_id |-> 1, display_name |-> <<"A">>, is_active |-> TRUE],
         [event_id |-> 1, display_name |-> NULL, is_active |-> TRUE]>>
  /\ media = <<>>
  /\ uploader_facets = EmptyFacets
  /\ tag_facets = EmptyFacets
  /\ blobs = {}
  /\ rowLock = [m \in 1..MaxMedia |-> 0]
  /\ proc = [p \in Procs |-> Idle]
  /\ now = WhileOpen
  /\ thumbs = {}
  /\ sweep = [w \in Sweepers |-> SweepIdle]

NextUpload ==
  \/ \E s \in 1..MaxSessions : createUpload_resolveSession(1, s, <<>>)
  \/ createUpload_quota_check(1)
  \/ createUpload_inserted(1)
  \/ \E m \in 1..MaxMedia : ClientPutObject(m)
  \/ \E s \in 1..MaxSessions, m \in 1..MaxMedia : completeUpload_select(1, s, m)
  \/ \E a \in BOOLEAN : completeUpload_verify(1, a)
  \/ completeUpload_update(1)
  \/ completeUpload_commit(1)
  \/ completeUpload_rollback(1)
  \/ \E s \in 1..MaxSessions : getMySession(1, s)
  \/ \E s \in 1..MaxSessions : getMyUploads(1, s)
  \/ \E s \in 1..MaxSessions, input \in PatchMySessionInputs : patchMySession_resolveSession(1, s, input)
  \/ patchMySession_update(1)
  \/ \E e \in Events, s \in 1..MaxSessions : deactivateGuest(e, s)
  \/ \E e \in Events : closeEvent_read(2, e)
  \/ closeEvent_update(2)
  \/ \E p \in Procs : Return(p)

\* one guest request at a time, every upload a one-byte JPEG, while the
\* organizer deactivates guests and closes the event
SpecUpload == InitUpload /\ [][NextUpload]_vars

NextUploadRequest ==
  \/ \E s \in 1..MaxSessions, ft \in FileTypeInputs, fs \in FileSizeInputs :
       createUpload_request(1, s, ft, fs, <<>>)
  \/ createUpload_quota_check(1)
  \/ createUpload_inserted(1)
  \/ \E e \in Events, s \in 1..MaxSessions : deactivateGuest(e, s)
  \/ \E e \in Events : closeEvent_read(2, e)
  \/ closeEvent_update(2)
  \/ \E p \in Procs : Return(p)

\* POST /uploads with any body, one request at a time, while the organizer
\* deactivates guests and closes the event
SpecUploadRequest == InitUpload /\ [][NextUploadRequest]_vars

\* ------------------------------------------------------------------ retention
\* the event is in its last active millisecond, the guests' rows are in the store
InitRetention ==
  /\ events = [e \in Events |->
                 [status |-> "active", max_guests |-> MaxSessions, max_uploads_per_guest |-> MaxCeiling,
                  event_date |-> EVENT_DATE, end_date |-> END_DATE,
                  expires_at |-> toEventCloseIso(END_DATE),
                  compression_mode |-> "compressed", total_fee |-> 0,
                  name |-> "party", pin_hash |-> NULL]]
  /\ device_sessions =
       <<[event_id |-> 1, display_name |-> <<"A">>, is_active |-> TRUE],
         [event_id |-> 1, display_name |-> NULL, is_active |-> TRUE]>>
  /\ media \in [1..MaxMedia -> LeftBehind]
  /\ uploader_facets = UploaderLedgerOf(media, Len(media))
  /\ tag_facets = TagLedgerOf(media, Len(media))
  /\ blobs = 1..MaxMedia
  /\ thumbs = blobs
  /\ rowLock = [m \in 1..MaxMedia |-> 0]
  /\ proc = [p \in Procs |-> Idle]
  /\ now = eventCloseAtMs(END_DATE)
  /\ sweep = [w \in Sweepers |-> SweepIdle]

NextRetention ==
  \/ Tick
  \/ runEventStatusSyncOnce
  \/ \E e \in Events : closeEvent_read(1, e)
  \/ closeEvent_update(1)
  \/ \E e \in Events : archiveEvent_read(1, e)
  \/ archiveEvent_update(1)
  \/ Return(1)
  \/ \E w \in Sweepers : sweep_fetch(w)
  \/ \E w \in Sweepers, ok \in BOOLEAN : sweep_deleteOriginal(w, ok)
  \/ \E w \in Sweepers, ok \in BOOLEAN : sweep_deleteThumb(w, ok)
  \/ \E w \in Sweepers : markCleanupSuccess(w)
  \/ \E w \in Sweepers : markCleanupSuccess_rollback(w)
  \/ \E w \in Sweepers : markCleanupFailure(w)
  \/ \E w \in Sweepers : rebuildGalleryFacets(w)

\* cleanup runs from the event's last active instant on, over its closing, its
\* archiving and the end of the retention window
SpecRetention == InitRetention /\ [][NextRetention]_vars

\* ------------------------------------------------------------------ uploads beside the cleanup
\* the event is in its last active millisecond and one row is in the store
InitExpired ==
  /\ \E c \in 1..MaxCeiling :
       events = [e \in Events |->
                 [status |-> "active", max_guests |-> MaxSessions, max_uploads_per_guest |-> c,
                  event_date |-> EVENT_DATE, end_date |-> END_DATE,
                  expires_at |-> toEventCloseIso(END_DATE),
                  compression_mode |-> "compressed", total_fee |-> 0,
                  name |-> "party", pin_hash |-> NULL]]
  /\ device_sessions =
       <<[event_id |-> 1, display_name |-> <<"A">>, is_active |-> TRUE],
         [event_id |-> 1, display_name |-> NULL, is_active |-> TRUE]>>
  /\ media \in [1..1 -> LeftBehind]
  /\ uploader_facets = UploaderLedgerOf(media, Len(media))
  /\ tag_facets = TagLedgerOf(media, Len(media))
  /\ blobs = {1}
  /\ thumbs = blobs
  /\ rowLock = [m \in 1..MaxMedia |-> 0]
  /\ proc = [p \in Procs |-> Idle]
  /\ now = eventCloseAtMs(END_DATE)
  /\ sweep = [w \in Sweepers |-> SweepIdle]

NextExpired ==
  \/ Tick
  \/ runEventStatusSyncOnce
  \/ \E s \in 1..MaxSessions : createUpload_resolveSession(1, s, <<>>)
  \/ createUpload_quota_check(1)
  \/ createUpload_inserted(1)
  \/ Return(1)
  \/ sweep_fetch(1)
  \/ \E ok \in BOOLEAN : sweep_deleteOriginal(1, ok)
  \/ \E ok \in BOOLEAN : sweep_deleteThumb(1, ok)
  \/ markCleanupSuccess(1)
  \/ markCleanupSuccess_rollback(1)
  \/ markCleanupFailure(1)
  \/ rebuildGalleryFacets(1)

\* createUpload requests beside the status sync and one cleanup run at a time,
\* from the event's last active instant to the end of its retention window
SpecExpired == InitExpired /\ [][NextExpired]_vars

Next == NextJoin \/ NextMedia \/ NextClock \/ NextSweep \/ NextOrphan \/ NextAdmin \/ NextRetention \/ NextUpload \/ NextUploadRequest
          \/ NextExpired \/ NextRun \/ NextRebuild \/ NextFacetRead
          \/ NextStarve

Spec == Init /\ [][Next]_vars

\* ================================================================== claims
\* ------------------------------------------------------------------ C1
\* C1: in every reachable state, for every event the number of device sessions
\* with is_active = true is at most the event's max_guests.
C1_ActiveWithinCeiling ==
  \A e \in Events : ActiveSessionCount(e) <= events[e].max_guests

\* ------------------------------------------------------------------ C2
\* C2: when all K handlers have answered a joinEvent for an event whose sessions
\* were never deactivated, and the rows added since are exactly theirs, n being
\* the rows before them and K >= C - n: exactly C - n calls succeeded and every
\* other call was answered EVENT_FULL.
C2_ExactAdmission ==
  \A e \in Events :
    LET ok == {p \in Procs : proc[p].result = "OK"}
        n == Len(device_sessions) - Cardinality(ok)
        free == events[e].max_guests - n
    IN (/\ \A p \in Procs :
             proc[p].op = "joinEvent" /\ proc[p].pc = "done" /\ proc[p].e = e
        /\ \A s \in SessionIds :
             device_sessions[s].is_active /\ device_sessions[s].event_id = e
        /\ {proc[p].sid : p \in ok} = (n + 1)..Len(device_sessions)
        /\ free >= 0
        /\ NumProcs >= free)
       => /\ Cardinality(ok) = free
          /\ \A p \in Procs \ ok : proc[p].result = "EVENT_FULL"

\* ------------------------------------------------------------------ C3
\* C3: in every reachable state, every session has at most max_uploads_per_guest
\* media rows in status pending or uploaded.
C3_QuotaWithinCeiling ==
  \A s \in SessionIds :
    Cardinality({m \in MediaIds : media[m].device_session_id = s
                                  /\ media[m].status \in {"pending", "uploaded"}})
      <= events[device_sessions[s].event_id].max_uploads_per_guest

\* ------------------------------------------------------------------ C4
\* C4: when all K handlers have answered a createUpload of one session, every
\* row of the table is still pending (nothing was finalized or moderated), the
\* rows added since are exactly theirs, r being the slots free before them and
\* K > r: exactly r calls succeeded, the others were answered UPLOAD_LIMIT_REACHED.
C4_ExactReservation ==
  \A s \in SessionIds :
    LET ok == {p \in Procs : proc[p].result = "OK"}
        n == Len(media) - Cardinality(ok)
        r == events[device_sessions[s].event_id].max_uploads_per_guest
               - Cardinality({m \in 1..n : media[m].device_session_id = s})
    IN (/\ \A p \in Procs :
             proc[p].op = "createUpload" /\ proc[p].pc = "done" /\ proc[p].sid = s
        /\ \A m \in MediaIds : media[m].status = "pending"
        /\ {proc[p].mid : p \in ok} = (n + 1)..Len(media)
        /\ r >= 0
        /\ NumProcs > r)
       => /\ Cardinality(ok) = r
          /\ \A p \in Procs \ ok : proc[p].result = "UPLOAD_LIMIT_REACHED"

\* ------------------------------------------------------------------ C5
PendingOrUploaded(s) ==
  Cardinality({m \in MediaIds : media[m].device_session_id = s
                                /\ (media[m].status = "pending" \/ media[m].status = "uploaded")})

\* the session's finalized uploads that the organizer has hidden
HiddenOf(s) ==
  Cardinality({m \in MediaIds : media[m].device_session_id = s /\ media[m].status = "hidden"
                                /\ media[m].uploaded_at})

\* the step in which handler p's createUpload runs its conditional insert
CreateUploadInsertStep(p) ==
  proc[p].op = "createUpload" /\ proc[p].pc = "inserted" /\ proc'[p].pc = "done"

\* the step in which handler p's createUpload takes its quota count
CreateUploadCountStep(p) ==
  proc[p].op = "createUpload" /\ proc[p].pc = "quota_check" /\ proc'[p].pc = "inserted"

\* C5 as stated: hidden rows count.  When the quota count of a createUpload is
\* taken for a session that has max_uploads_per_guest or more rows in {pending,
\* uploaded, hidden}, the count finds no free slot, so that the call is answered
\* UPLOAD_LIMIT_REACHED.
C5_HiddenCounts ==
  [][\A p \in Procs :
       (/\ CreateUploadCountStep(p)
        /\ PendingOrUploaded(proc[p].sid) + HiddenOf(proc[p].sid) >= proc[p].cap)
       => proc'[p].cnt >= proc[p].cap]_vars

\* C5 amended: hidden rows do not count.  The quota count of a createUpload is the
\* number of the session's rows in {pending, uploaded}, whatever the number of
\* hidden rows; the call inserts one pending row iff that count is below
\* max_uploads_per_guest and is answered UPLOAD_LIMIT_REACHED, inserting nothing,
\* otherwise.
C5_HiddenNotCounted ==
  [][\A p \in Procs :
       /\ CreateUploadCountStep(p) => proc'[p].cnt = PendingOrUploaded(proc[p].sid)
       /\ CreateUploadInsertStep(p)
            => IF proc[p].cnt < proc[p].cap
               THEN /\ proc'[p].result = "OK"
                    /\ Len(media') = Len(media) + 1
                    /\ media'[Len(media')].status = "pending"
                    /\ media'[Len(media')].device_session_id = proc[p].sid
               ELSE /\ proc'[p].result = "UPLOAD_LIMIT_REACHED"
                    /\ media' = media]_vars

\* with no other request in flight, a createUpload has succeeded for a session
\* that is over the ceiling with its hidden upload and within it without
C5_Witness ==
  \E p \in Procs :
    /\ proc[p].op = "createUpload" /\ proc[p].pc = "done" /\ proc[p].result = "OK"
    /\ \A q \in Procs \ {p} : proc[q].op = "idle"
    /\ HiddenOf(proc[p].sid) >= 1
    /\ PendingOrUploaded(proc[p].sid) <= proc[p].cap
    /\ PendingOrUploaded(proc[p].sid) + HiddenOf(proc[p].sid) > proc[p].cap

\* ------------------------------------------------------------------ C6
LegalTransitions ==
  {<<"pending", "uploaded">>, <<"uploaded", "hidden">>, <<"hidden", "uploaded">>,
   <<"pending", "expired">>, <<"uploaded", "expired">>, <<"hidden", "expired">>}

\* C6: every change of a media row's status is one of the six legal transitions.
C6_LegalTransitionsOnly ==
  [][\A m \in MediaIds :
       media'[m].status # media[m].status
         => <<media[m].status, media'[m].status>> \in LegalTransitions]_vars

\* ------------------------------------------------------------------ C7
\* the ledger keys a media row bears: its normalized uploader name, its normalized tags
UploaderKeysOf(m) ==
  IF normalizeUploaderName(media[m].uploader_name) # NULL
  THEN {<<media[m].event_id, normalizeUploaderName(media[m].uploader_name)>>}
  ELSE {}

TagKeysOf(m) == {<<media[m].event_id, t>> : t \in Range(normalizeTags(media[m].tags))}

\* the steps of handler p's completeUpload: the commit of its transaction, and the
\* UPDATE that matches no row
CompleteUploadCommitStep(p) ==
  proc[p].op = "completeUpload" /\ proc[p].pc = "facets" /\ proc'[p].result = "OK"

CompleteUploadUpdateStep(p) ==
  proc[p].op = "completeUpload" /\ proc[p].pc = "update" /\ proc'[p] # proc[p]

\* C7: of the completeUpload calls racing for one row at most one succeeds.  A
\* call succeeds only on a row that is pending and was never finalized, and its
\* commit adds exactly one to the ledger for each key of the row; a finalized
\* row is never pending again; a call whose UPDATE comes after the row was
\* finalized is answered MEDIA_STATE_CONFLICT and changes nothing; the ledger
\* changes in no other step; no two answered calls for one row are both OK.
C7_AtMostOneFinalize ==
  [][/\ \A p \in Procs :
          LET m == proc[p].mid
          IN /\ CompleteUploadCommitStep(p)
                  => /\ media[m].status = "pending" /\ ~media[m].uploaded_at
                     /\ media'[m].status = "uploaded" /\ media'[m].uploaded_at
                     /\ \A k \in DOMAIN uploader_facets \cup DOMAIN uploader_facets' \cup UploaderKeysOf(m) :
                          Count(uploader_facets', k)
                            = Count(uploader_facets, k) + (IF k \in UploaderKeysOf(m) THEN 1 ELSE 0)
                     /\ \A k \in DOMAIN tag_facets \cup DOMAIN tag_facets' \cup TagKeysOf(m) :
                          Count(tag_facets', k)
                            = Count(tag_facets, k) + (IF k \in TagKeysOf(m) THEN 1 ELSE 0)
             /\ (CompleteUploadUpdateStep(p) /\ media[m].uploaded_at)
                  => /\ proc'[p].pc = "done" /\ proc'[p].result = "MEDIA_STATE_CONFLICT"
                     /\ media' = media
     /\ \A m \in MediaIds :
          media[m].uploaded_at => media'[m].uploaded_at /\ media'[m].status # "pending"
     /\ (uploader_facets' # uploader_facets \/ tag_facets' # tag_facets)
          => \E p \in Procs : CompleteUploadCommitStep(p)
     /\ \A p, q \in Procs :
          (/\ p # q
           /\ proc[p].op = "completeUpload" /\ proc[q].op = "completeUpload"
           /\ proc[p].mid = proc[q].mid
           /\ proc[p].result = "OK")
          => proc[q].result # "OK"]_vars

\* two calls for one row of a named uploader have been answered, one OK and one
\* MEDIA_STATE_CONFLICT, and the ledger holds 1 for the row's uploader
C7_Witness ==
  \E p, q \in Procs :
    /\ proc[p].op = "completeUpload" /\ proc[p].pc = "done" /\ proc[p].result = "OK"
    /\ proc[q].op = "completeUpload" /\ proc[q].pc = "done"
    /\ proc[q].result = "MEDIA_STATE_CONFLICT"
    /\ proc[q].mid = proc[p].mid /\ proc[q].sid = proc[p].sid
    /\ media[proc[p].mid].status = "uploaded"
    /\ UploaderKeysOf(proc[p].mid) # {}
    /\ \A k \in UploaderKeysOf(proc[p].mid) : Count(uploader_facets, k) = 1

\* ------------------------------------------------------------------ C8
\* the step in which handler p takes a completeUpload request
CompleteUploadSelectStep(p) ==
  proc[p].op = "idle" /\ proc'[p].op = "completeUpload"

\* C8: a completeUpload that its owner, an active session, calls on a row
\* already in status uploaded is answered MEDIA_STATE_CONFLICT at once, and
\* leaves the media table and both ledgers as they were.
C8_AlreadyUploadedConflict ==
  [][\A p \in Procs :
       (/\ CompleteUploadSelectStep(p)
        /\ device_sessions[proc'[p].sid].is_active
        /\ media[proc'[p].mid].device_session_id = proc'[p].sid
        /\ media[proc'[p].mid].status = "uploaded")
       => /\ proc'[p].pc = "done"
          /\ proc'[p].result = "MEDIA_STATE_CONFLICT"
          /\ media' = media
          /\ uploader_facets' = uploader_facets
          /\ tag_facets' = tag_facets]_vars

\* a finalized row was called on twice more: both calls are answered
\* MEDIA_STATE_CONFLICT and the ledger still holds 1 for each tag of the row
C8_Witness ==
  \E m \in MediaIds :
    /\ media[m].status = "uploaded" /\ media[m].uploaded_at
    /\ TagKeysOf(m) # {}
    /\ \A k \in TagKeysOf(m) : Count(tag_facets, k) = 1
    /\ \A p \in Procs :
         /\ proc[p].op = "completeUpload" /\ proc[p].pc = "done"
         /\ proc[p].mid = m /\ proc[p].sid = media[m].device_session_id
         /\ proc[p].result = "MEDIA_STATE_CONFLICT"

\* ------------------------------------------------------------------ C9
\* the rows completeUpload has flipped: uploaded_at is stamped
Finalized == {m \in MediaIds : media[m].uploaded_at}

\* C9: the flip and the increments are one commit.  In every reachable state,
\* also after a transaction that failed, each ledger holds for each key exactly
\* the number of finalized rows that bear it, and no row for any other key; a
\* finalized row is not pending and a row that is not finalized is counted nowhere.
C9_FlipAndIncrementAtomic ==
  /\ \A m \in Finalized : media[m].status # "pending"
  /\ DOMAIN uploader_facets = UNION {UploaderKeysOf(m) : m \in Finalized}
  /\ \A k \in DOMAIN uploader_facets :
       uploader_facets[k] = Cardinality({m \in Finalized : k \in UploaderKeysOf(m)})
  /\ DOMAIN tag_facets = UNION {TagKeysOf(m) : m \in Finalized}
  /\ \A k \in DOMAIN tag_facets :
       tag_facets[k] = Cardinality({m \in Finalized : k \in TagKeysOf(m)})

\* one transaction has failed and left its row pending and uncounted, another
\* has committed a row with a name and tags, counted once each
C9_Witness ==
  \E p, q \in Procs :
    /\ proc[p].op = "completeUpload" /\ proc[p].pc = "done"
    /\ proc[p].result = "INTERNAL_ERROR"
    /\ media[proc[p].mid].status = "pending" /\ ~media[proc[p].mid].uploaded_at
    /\ proc[q].op = "completeUpload" /\ proc[q].pc = "done" /\ proc[q].result = "OK"
    /\ media[proc[q].mid].status = "uploaded"
    /\ UploaderKeysOf(proc[q].mid) # {} /\ TagKeysOf(proc[q].mid) # {}
    /\ \A k \in UploaderKeysOf(proc[q].mid) : Count(uploader_facets, k) = 1
    /\ \A k \in TagKeysOf(proc[q].mid) : Count(tag_facets, k) = 1

\* ------------------------------------------------------------------ C10
\* the step in which handler p's completeUpload checks the store
CompleteUploadVerifyStep(p) ==
  proc[p].op = "completeUpload" /\ proc[p].pc = "verify" /\ proc'[p].pc # "verify"

JoinGatePassed(p) ==
  proc[p].op = "idle" /\ proc'[p].op = "joinEvent" /\ proc'[p].pc = "guest_check"

UploadGatePassed(p) ==
  proc[p].op = "idle" /\ proc'[p].op = "createUpload" /\ proc'[p].pc = "quota_check"

\* the status the Lifecycle Clock gives event e now
ClockStatus(e) == resolveEventStatus(events[e].event_date, events[e].end_date)

\* C12: a joinEvent, a createUpload gets past its gate only when the Lifecycle
\* Clock, read from the event's two dates at that moment, gives active.
C12_GateByClock ==
  [][\A p \in Procs :
       (JoinGatePassed(p) \/ UploadGatePassed(p)) => ClockStatus(proc'[p].e) = "active"]_vars

\* ------------------------------------------------------------------ C13
\* event_date at 00:00:00.000Z - 13 h: 11:00:00.000Z of the day before
OpenOf(date) == [d |-> DaysFromCivil(date[1], date[2], date[3]) - 1, ms |-> 11 * MS_PER_HOUR]

\* end_date at 23:59:59.999Z + 13 h: 12:59:59.999Z of the day after
CloseOf(date) == [d |-> DaysFromCivil(date[1], date[2], date[3]) + 1, ms |-> 13 * MS_PER_HOUR - 1]

\* the step that creates event e
CreateEventStep(e) == events[e].status = "none" /\ events'[e].status # "none"

\* C13: the status createEvent computes is one of draft, active, closed: draft
\* iff now < event_date 00:00:00.000Z - 13 h, closed iff now > end_date
\* 23:59:59.999Z + 13 h, active otherwise; for 2026-02-14 .. 2026-02-15 it is
\* draft at 2026-02-13T10:59:59Z, active from 2026-02-13T11:00:00Z through
\* 2026-02-16T12:59:59Z and closed at 2026-02-16T13:00:00Z.
C13_LifecycleClock ==
  [][\A e \in Events :
       CreateEventStep(e) =>
         LET st == events'[e].status
             open == OpenOf(events'[e].event_date)
             close == CloseOf(events'[e].end_date)
         IN /\ st \in {"draft", "active", "closed"}
            /\ st = "draft" <=> Before(now, open)
            /\ st = "closed" <=> Before(close, now)
            /\ (events'[e].event_date = <<2026, 2, 14>> /\ events'[e].end_date = <<2026, 2, 15>>)
                 => /\ now = At(<<2026, 2, 13>>, 10, 59, 59, 0) => st = "draft"
                    /\ (/\ ~Before(now, At(<<2026, 2, 13>>, 11, 0, 0, 0))
                        /\ ~Before(At(<<2026, 2, 16>>, 12, 59, 59, 0), now)) => st = "active"
                    /\ now = At(<<2026, 2, 16>>, 13, 0, 0, 0) => st = "closed"]_vars

\* the event of 2026-02-14 .. 2026-02-15 stands closed at 2026-02-16T13:00:00Z
C13_Witness ==
  \E e \in Events :
    /\ events[e].event_date = <<2026, 2, 14>> /\ events[e].end_date = <<2026, 2, 15>>
    /\ events[e].status = "closed"
    /\ events[e].expires_at = At(<<2026, 2, 16>>, 12, 59, 59, 999)
    /\ now = At(<<2026, 2, 16>>, 13, 0, 0, 0)

\* ------------------------------------------------------------------ C14
\* C14: in every reachable state every row of the by-uploader and of the by-tag
\* ledger has media_count >= 1, after any sequence of increments (completeUpload),
\* decrements (cleanup) and rebuilds.
C14_NoZeroCounter ==
  /\ \A k \in DOMAIN uploader_facets : uploader_facets[k] >= 1
  /\ \A k \in DOMAIN tag_facets : tag_facets[k] >= 1

\* a cleanup run, still under way, has expired the only row of uploader "A" and
\* of tag "x": their counters are gone from the ledgers
C14_Witness ==
  \E m \in MediaIds, w \in Sweepers :
    /\ media[m].storage_deleted_at /\ media[m].uploaded_at
    /\ UploaderKeysOf(m) # {} /\ TagKeysOf(m) # {}
    /\ UploaderKeysOf(m) \cap DOMAIN uploader_facets = {}
    /\ TagKeysOf(m) \cap DOMAIN tag_facets = {}
    /\ sweep[w].pc = "delete_original"
    /\ \A v \in Sweepers \ {w} : sweep[v].pc = "idle"

\* ------------------------------------------------------------------ C15
\* the step in which run w rebuilds the ledgers
RebuildStep(w) == sweep[w].pc = "rebuild" /\ sweep'[w].pc = "idle"

\* the rows that are finalized and not expired: uploaded or hidden
Tracked == {m \in MediaIds : media[m].status \in {"uploaded", "hidden"}}

\* C15: after rebuildGalleryFacets each counter equals the number of uploaded or
\* hidden rows of the event that bear the normalized uploader name, the tag, and
\* there is no counter for any other value; rebuilding once more gives the
\* same ledgers.
C15_RebuildGroundTruth ==
  [][\A w \in Sweepers :
       RebuildStep(w) =>
         /\ \A k \in DOMAIN uploader_facets' \cup UNION {UploaderKeysOf(m) : m \in Tracked} :
              Count(uploader_facets', k) = Cardinality({m \in Tracked : k \in UploaderKeysOf(m)})
         /\ \A k \in DOMAIN tag_facets' \cup UNION {TagKeysOf(m) : m \in Tracked} :
              Count(tag_facets', k) = Cardinality({m \in Tracked : k \in TagKeysOf(m)})
         /\ rebuildGalleryFacets_uploader' = uploader_facets'
         /\ rebuildGalleryFacets_tags' = tag_facets']_vars

\* ------------------------------------------------------------------ C16
\* a step that changes the status of a row and neither finalizes nor expires it:
\* hideMedia, unhideMedia, bulkHideMedia
ModerationStep ==
  \E m \in MediaIds :
    /\ media'[m].status # media[m].status
    /\ media'[m].uploaded_at = media[m].uploaded_at
    /\ media'[m].storage_deleted_at = media[m].storage_deleted_at

\* C16: hideMedia, unhideMedia and bulkHideMedia leave every counter of both
\* ledgers as it was.
C16_ModerationKeepsLedger ==
  [][ModerationStep => uploader_facets' = uploader_facets /\ tag_facets' = tag_facets]_vars

\* a finalized row of a named uploader with tags is hidden, no request is in
\* flight, and the ledgers hold 1 for its uploader and for each of its tags
C16_Witness ==
  \E m \in MediaIds :
    /\ media[m].status = "hidden" /\ media[m].uploaded_at
    /\ UploaderKeysOf(m) # {} /\ TagKeysOf(m) # {}
    /\ \A k \in UploaderKeysOf(m) : Count(uploader_facets, k) = 1
    /\ \A k \in TagKeysOf(m) : Count(tag_facets, k) = 1
    /\ \A p \in Procs : proc[p].op = "idle"

\* ------------------------------------------------------------------ C17
\* the steps of run w: into the catch, and markCleanupFailure
CatchStep(w) == sweep[w].pc # "failure" /\ sweep'[w].pc = "failure"

FailureStep(w) == sweep[w].pc = "failure" /\ sweep'[w] # sweep[w]

\* C17: when a delete of a row's original or thumbnail fails, the run writes
\* nothing but the failure: status, storage_deleted_at and both ledgers stay as
\* they were, storage_delete_attempts goes up by exactly 1, the error is
\* recorded, no other row changes, and a row that was a candidate is one still.
C17_FailureLeavesRow ==
  [][\A w \in Sweepers :
       /\ CatchStep(w)
            => media' = media /\ uploader_facets' = uploader_facets /\ tag_facets' = tag_facets
       /\ FailureStep(w)
            => LET m == Head(sweep[w].queue).media_id
               IN /\ media' = [media EXCEPT
                                 ![m].storage_delete_attempts = media[m].storage_delete_attempts + 1,
                                 ![m].storage_last_delete_error = TRUE]
                  /\ media'[m].status = media[m].status
                  /\ media'[m].storage_deleted_at = media[m].storage_deleted_at
                  /\ uploader_facets' = uploader_facets /\ tag_facets' = tag_facets
                  /\ \A i \in MediaIds :
                       (i = m /\ IsCleanupCandidate(i)) => IsCleanupCandidate(i)']_vars

\* the delete of a row's thumbnail failed after its original was deleted: the
\* row is uploaded or hidden as before, counted as before, has one attempt and
\* the error on it, and is a candidate for the next run
C17_Witness ==
  \E m \in MediaIds :
    /\ media[m].status \in {"uploaded", "hidden"} /\ ~media[m].storage_deleted_at
    /\ media[m].storage_delete_attempts = 1 /\ media[m].storage_last_delete_error
    /\ m \notin blobs /\ m \in thumbs
    /\ UploaderKeysOf(m) # {}
    /\ \A k \in UploaderKeysOf(m) : Count(uploader_facets, k) >= 1
    /\ IsCleanupCandidate(m)
    /\ \A w \in Sweepers : sweep[w].pc = "idle"

\* ------------------------------------------------------------------ C18
\* the step in which run w commits markCleanupSuccess
SuccessStep(w) == sweep[w].pc = "success" /\ sweep'[w].pc \notin {"success", "failure"}

\* C18: when markCleanupSuccess commits for a row that is uploaded or hidden,
\* the row becomes expired with storage_deleted_at set and, in the same step,
\* the counter of its uploader name and of each of its tags goes down by one,
\* a counter that reaches 0 being removed.
C18_SuccessFlipsAndDecrements ==
  [][\A w \in Sweepers :
       LET m == Head(sweep[w].queue).media_id
       IN (SuccessStep(w) /\ media[m].status \in {"uploaded", "hidden"})
            => /\ media'[m].status = "expired" /\ media'[m].storage_deleted_at
               /\ \A k \in UploaderKeysOf(m) :
                    Count(uploader_facets', k) = Max(Count(uploader_facets, k) - 1, 0)
               /\ \A k \in TagKeysOf(m) :
                    Count(tag_facets', k) = Max(Count(tag_facets, k) - 1, 0)
               /\ \A k \in DOMAIN uploader_facets' : uploader_facets'[k] >= 1
               /\ \A k \in DOMAIN tag_facets' : tag_facets'[k] >= 1]_vars

\* ------------------------------------------------------------------ C19
\* C19: in every reachable state a row with storage_deleted_at set has neither
\* its original nor its thumbnail in the store: the mark is written only after
\* both deletes have returned.
C19_MarkedOnlyAfterRemoval ==
  \A m \in MediaIds : media[m].storage_deleted_at => m \notin blobs /\ m \notin thumbs

\* one row is marked storage-deleted with both objects gone; for another the
\* delete of the thumbnail failed and the row is not marked
C19_Witness ==
  \E m1, m2 \in MediaIds :
    /\ media[m1].storage_deleted_at /\ media[m1].status = "expired"
    /\ m1 \notin blobs /\ m1 \notin thumbs
    /\ ~media[m2].storage_deleted_at /\ media[m2].storage_delete_attempts = 1
    /\ m2 \notin blobs /\ m2 \in thumbs

\* ------------------------------------------------------------------ C20
\* C20: a row is processed at most once.  When markCleanupSuccess commits for a
\* row that a run has already marked storage-deleted, it changes neither the
\* media table nor a ledger counter.
C20_NoDoubleProcessing ==
  [][\A w \in Sweepers :
       (SuccessStep(w) /\ media[Head(sweep[w].queue).media_id].storage_deleted_at)
         => /\ media' = media
            /\ uploader_facets' = uploader_facets
            /\ tag_facets' = tag_facets]_vars

\* ------------------------------------------------------------------ C11
\* row m was reserved more than the orphan timeout ago, its blob was never
\* written and it is still pending
Orphaned(m) ==
  /\ m \in MediaIds
  /\ media[m].status = "pending"
  /\ m \notin blobs
  /\ Before(AddMs(media[m].created_at, PENDING_CLEANUP_MINUTES * 60 * 1000), now)

\* C11: a row that has stayed pending longer than the orphan timeout is
\* eventually expired by a background job while the event is still active.
C11_OrphanReclaimed ==
  \A m \in 1..MaxMedia :
    Orphaned(m) ~>
      (m \in MediaIds /\ media[m].status = "expired" /\ ClockStatus(media[m].event_id) = "active")

\* ------------------------------------------------------------------ C23
\* C23: archived and purged are one-way states on top of closed.  In every step
\* an event becomes archived only from closed, and an archived event stays
\* archived or becomes purged, a purged event stays purged.
C23_ArchiveOnTopOfClosed ==
  [][\A e \in Events :
       /\ (events'[e].status = "archived" /\ events[e].status # "archived")
            => events[e].status = "closed"
       /\ events[e].status = "archived" => events'[e].status \in {"archived", "purged"}
       /\ events[e].status = "purged" => events'[e].status = "purged"]_vars

\* ------------------------------------------------------------------ C24
\* the ceilings and the compression mode of an event row
Settings(event) == <<event.max_guests, event.max_uploads_per_guest, event.compression_mode>>

\* C24: once the event has opened, no step changes max_guests,
\* max_uploads_per_guest or compression_mode, and a patchEvent or updateCapacity
\* request that touches one of them and is read then is answered
\* EVENT_SETTINGS_LOCKED.
C24_SettingsLockedOnceOpen ==
  [][\A e \in Events :
       (events[e].status # "none" /\ ~Before(now, OpenOf(events[e].event_date)))
         => /\ Settings(events'[e]) = Settings(events[e])
            /\ \A p \in Procs :
                 (proc[p].op = "idle" /\ proc'[p].op \in {"patchEvent", "updateCapacity"}
                    /\ proc'[p].touched)
                   => proc'[p].result = "EVENT_SETTINGS_LOCKED"]_vars

\* ------------------------------------------------------------------ C21
\* the step removes an object of media row m from the store, or expires the row,
\* or marks it storage-deleted
CleanupTouches(m) ==
  \/ m \in blobs /\ m \notin blobs'
  \/ m \in thumbs /\ m \notin thumbs'
  \/ media[m].status # "expired" /\ media'[m].status = "expired"
  \/ ~media[m].storage_deleted_at /\ media'[m].storage_deleted_at

\* C21: the cleanup removes an object of, expires or marks only a row that is not
\* storage-deleted and whose event is closed, archived or purged and has been
\* past its close instant for RETENTION_DAYS days or more; a run takes at most
\* MAX_MEDIA_PER_RUN rows, and fetchCleanupCandidates(limit) never returns more
\* than limit rows nor a row outside those.
C21_OnlyRetiredMedia ==
  [][/\ \A m \in MediaIds :
          CleanupTouches(m) =>
            /\ ~media[m].storage_deleted_at
            /\ events[media[m].event_id].status \in {"closed", "archived", "purged"}
            /\ ~Before(now, AddDays(CloseOf(events[media[m].event_id].end_date), RETENTION_DAYS))
     /\ \A w \in Sweepers :
          /\ Len(sweep'[w].queue) <= MAX_MEDIA_PER_RUN
          /\ (sweep[w].pc = "idle" /\ sweep'[w].pc # "idle") =>
               \A i \in 1..Len(sweep'[w].queue) :
                 LET m == sweep'[w].queue[i].media_id
                 IN /\ ~media[m].storage_deleted_at
                    /\ events[media[m].event_id].status \notin {"draft", "active"}
     /\ \A limit \in 0..MaxMedia : Len(fetchCleanupCandidates(limit)) <= limit]_vars

\* the organizer has archived the event, the retention window has run out, a
\* cleanup run has expired one row and removed both its objects, and the other
\* row is still a candidate
C21_Witness ==
  \E m1, m2 \in MediaIds :
    /\ events[media[m1].event_id].status = "archived"
    /\ media[m1].storage_deleted_at /\ media[m1].status = "expired"
    /\ m1 \notin blobs /\ m1 \notin thumbs
    /\ m2 # m1 /\ IsCleanupCandidate(m2) /\ m2 \in blobs
    /\ now = AddDays(CloseOf(END_DATE), RETENTION_DAYS)

\* ------------------------------------------------------------------ C22
\* the operations a guest calls with the token of a session
GuestOps == {"getMySession", "patchMySession", "createUpload", "completeUpload", "getMyUploads"}

\* handler p receives a guest operation
GuestRequestStep(p) == proc[p].op = "idle" /\ proc'[p].op \in GuestOps

AllowList(mode) ==
  IF mode = "compressed"
  THEN {<<"image/jpeg">>, <<"image/png">>, <<"image/webp">>}
  ELSE {<<"image/jpeg">>, <<"image/png">>, <<"image/webp">>, <<"image/heic">>, <<"image/heif">>}
       \cup RawFileTypes

\* the size ceiling in bytes: 5 MB compressed; in raw mode 25 MB for the raw
\* family and 15 MB otherwise
SizeCeiling(mode, fileType) ==
  IF mode = "compressed" THEN 5 * 1024 * 1024
  ELSE IF fileType \in RawFileTypes THEN 25 * 1024 * 1024 ELSE 15 * 1024 * 1024

\* C25: a createUpload of an active session in an active event, with a valid
\* body, ends with UNSUPPORTED_FILE_TYPE when its MIME type is outside the
\* mode's allow-list, with FILE_TOO_LARGE when the type is allowed and the size
\* above the ceiling, and goes on to the quota count otherwise; a rejected call
\* has ended, and the request step inserts no media row.
C25_TypeAndSizeRejected ==
  [][/\ (proc[1].op = "idle" /\ proc'[1].op = "createUpload"
           /\ device_sessions[proc'[1].sid].is_active
           /\ events[device_sessions[proc'[1].sid].event_id].status = "active")
          => \A ft \in FileTypeInputs, fs \in FileSizeInputs :
            (/\ normalizeFileType(ft) # <<>> /\ fs >= 1
             /\ createUpload_request(1, proc'[1].sid, ft, fs, <<>>))
            => LET mode == events[device_sessions[proc'[1].sid].event_id].compression_mode
                   fileType == normalizeFileType(ft)
               IN /\ fileType \notin AllowList(mode)
                       => proc'[1].result = "UNSUPPORTED_FILE_TYPE"
                  /\ (fileType \in AllowList(mode) /\ fs > SizeCeiling(mode, fileType))
                       => proc'[1].result = "FILE_TOO_LARGE"
                  /\ (fileType \in AllowList(mode) /\ fs <= SizeCeiling(mode, fileType))
                       => proc'[1].pc = "quota_check"
                  /\ media' = media
     /\ \A p \in Procs :
          (proc'[p].op = "createUpload"
             /\ proc'[p].result \in {"UNSUPPORTED_FILE_TYPE", "FILE_TOO_LARGE"})
            => proc'[p].pc = "done" /\ media' = media]_vars

\* in a raw-mode event a guest with a free slot is answered FILE_TOO_LARGE
C25_Witness ==
  \E p \in Procs :
    /\ proc[p].op = "createUpload" /\ proc[p].result = "FILE_TOO_LARGE"
    /\ events[proc[p].e].compression_mode = "raw"
    /\ events[proc[p].e].status = "active"
    /\ QuotaCount(proc[p].sid) < events[proc[p].e].max_uploads_per_guest
    /\ Len(media) = 1

\* ------------------------------------------------------------------ C28
\* C28: uploader_name is written once.  No step changes the uploader_name of an
\* existing media row, a row is inserted with the display name its createUpload
\* read, and a completeUpload commit adds one to the counter of the row's own
\* uploader_name and to no other uploader counter.
C28_UploaderNameSnapshot ==
  [][/\ \A m \in MediaIds : media'[m].uploader_name = media[m].uploader_name
     /\ \A p \in Procs :
          /\ (CreateUploadInsertStep(p) /\ Len(media') > Len(media))
               => media'[Len(media')].uploader_name = proc[p].name
          /\ CompleteUploadCommitStep(p)
               => \A k \in DOMAIN uploader_facets' \cup DOMAIN uploader_facets
                         \cup UploaderKeysOf(proc[p].mid) :
                    Count(uploader_facets', k) =
                      Count(uploader_facets, k) + (IF k \in UploaderKeysOf(proc[p].mid) THEN 1 ELSE 0)]_vars

\* guest "A" reserved an upload, changed the display name to "B" and finalized:
\* the row and the ledger say "A", the session says "B"
C28_Witness ==
  \E m \in MediaIds :
    /\ media[m].uploaded_at /\ media[m].uploader_name = <<"A">>
    /\ device_sessions[media[m].device_session_id].display_name = <<"B">>
    /\ Count(uploader_facets, <<media[m].event_id, <<"A">>>>) = 1
    /\ <<media[m].event_id, <<"B">>>> \notin DOMAIN uploader_facets

\* ------------------------------------------------------------------ C30
\* C30: in a closed event a completeUpload is served as in an active one: the call
\* of an active session for its own pending row goes on to the storage check,
\* the check lets it through when the object is there and the store answers, its
\* UPDATE takes the pending row, and its commit makes the row uploaded; a
\* createUpload with a valid body of an active session is answered EVENT_CLOSED.
C30_CompleteAfterClose ==
  [][\A p \in Procs :
       /\ (CompleteUploadSelectStep(p) /\ resolveSessionFromToken(proc'[p].sid) = ""
             /\ events[device_sessions[proc'[p].sid].event_id].status = "closed"
             /\ media[proc'[p].mid].device_session_id = proc'[p].sid
             /\ media[proc'[p].mid].status = "pending")
            => proc'[p].pc = "verify"
       /\ (proc[p].op = "completeUpload" /\ events[media[proc[p].mid].event_id].status = "closed")
            => /\ (CompleteUploadVerifyStep(p) /\ proc[p].mid \in blobs)
                    => proc'[p].pc \in {"update", "done"} /\ proc'[p].result \in {"", "UPLOAD_NOT_FOUND"}
               /\ (CompleteUploadUpdateStep(p) /\ media[proc[p].mid].status = "pending")
                    => proc'[p].pc = "facets"
               /\ CompleteUploadCommitStep(p)
                    => media'[proc[p].mid].status = "uploaded"
       /\ (proc[p].op = "idle" /\ proc'[p].op = "createUpload"
             /\ device_sessions[proc'[p].sid].is_active
             /\ events[device_sessions[proc'[p].sid].event_id].status = "closed")
            => proc'[p].result = "EVENT_CLOSED" /\ proc'[p].pc = "done" /\ media' = media]_vars

\* the event is closed, a row reserved before is uploaded and the completeUpload
\* for it has just been answered OK
C30_Witness ==
  \E p \in Procs :
    /\ proc[p].op = "completeUpload" /\ proc[p].result = "OK"
    /\ events[media[proc[p].mid].event_id].status = "closed"
    /\ media[proc[p].mid].status = "uploaded" /\ media[proc[p].mid].uploaded_at
    /\ \A q \in Procs \ {p} : proc[q].op = "idle"

\* ------------------------------------------------------------------ C26
\* handler p receives a joinEvent for event e, a createUpload of session s
JoinRequestStep(p, e) ==
  proc[p].op = "idle" /\ proc'[p].op = "joinEvent" /\ proc'[p].e = e

UploadRequestStep(p, s) ==
  proc[p].op = "idle" /\ proc'[p].op = "createUpload" /\ proc'[p].sid = s

\* C26: a joinEvent for an event, a createUpload of a session of an event, whose
\* stored status is draft, closed, archived or purged ends at once with
\* EVENT_CLOSED; no session row and no media row is inserted and the two counts
\* the ceilings are compared with are as they were.
C26_NotActiveRejected ==
  [][\A p \in Procs :
       /\ \A e \in Events :
            (JoinRequestStep(p, e) /\ events[e].status \notin {"none", "active"})
              => /\ proc'[p].pc = "done" /\ proc'[p].result = "EVENT_CLOSED"
                 /\ device_sessions' = device_sessions /\ media' = media
                 /\ ActiveSessionCount(e)' = ActiveSessionCount(e)
       /\ \A s \in SessionIds :
            (/\ UploadRequestStep(p, s)
             /\ device_sessions[s].is_active
             /\ events[device_sessions[s].event_id].status # "active")
              => /\ proc'[p].pc = "done" /\ proc'[p].result = "EVENT_CLOSED"
                 /\ device_sessions' = device_sessions /\ media' = media
                 /\ QuotaCount(s)' = QuotaCount(s)]_vars

\* a guest who joined while the event was active and has a free slot is
\* answered EVENT_CLOSED once the sync has closed the event
C26_Witness ==
  \E p \in Procs :
    /\ proc[p].op = "createUpload" /\ proc[p].result = "EVENT_CLOSED"
    /\ proc[p].sid \in SessionIds
    /\ events[device_sessions[proc[p].sid].event_id].status = "closed"
    /\ QuotaCount(proc[p].sid) < events[device_sessions[proc[p].sid].event_id].max_uploads_per_guest
    /\ Len(device_sessions) < events[device_sessions[proc[p].sid].event_id].max_guests

\* ------------------------------------------------------------------ C27
\* the longest tags array tried
MaxTags == 3

\* spellings of the tags "x" and "y", and a blank
TagWords == {<<"X">>, <<"x", SPACE>>, <<SPACE, "x">>, <<"Y">>, <<"y">>, <<SPACE>>}

\* spellings that differ in case and surrounding whitespace only
SpellingsOfX == {<<"X">>, <<"x", SPACE>>, <<SPACE, "x">>, <<SPACE, "X", SPACE>>}

TagLists == UNION {[1..n -> TagWords] : n \in 0..MaxTags}

NoDuplicates(list) == \A i, j \in 1..Len(list) : list[i] = list[j] => i = j

\* every entry is trimmed, lower-cased and not blank
Folded(list) ==
  \A i \in 1..Len(list) :
    /\ list[i] # <<>>
    /\ Head(list[i]) # SPACE /\ list[i][Len(list[i])] # SPACE
    /\ \A j \in 1..Len(list[i]) : list[i][j] \notin {"A", "B", "X", "Y"}

\* the two normalizations give folded lists without duplicates and change
\* nothing when applied to their own result
NormalizationIdempotent ==
  \A v \in TagLists :
    /\ Folded(ensureTags(v)) /\ NoDuplicates(ensureTags(v))
    /\ Folded(normalizeTags(v)) /\ NoDuplicates(normalizeTags(v))
    /\ ensureTags(ensureTags(v)) = ensureTags(v)
    /\ normalizeTags(normalizeTags(v)) = normalizeTags(v)
    /\ normalizeTags(ensureTags(v)) = ensureTags(v)

\* any two spellings of "x" in one list give the one tag "x"
SpellingsFoldToOne ==
  \A a \in SpellingsOfX, b \in SpellingsOfX :
    /\ ensureTags(<<a, b>>) = <<<<"x">>>>
    /\ normalizeTags(<<a, b, a>>) = <<<<"x">>>>

\* C27: the tags of a request and of a row are folded and de-duplicated, folding
\* twice is folding once, spellings that differ in case or surrounding
\* whitespace give one value, and the commit of a finalization adds exactly one
\* to the counter of each distinct folded tag of the row and nothing to another.
C27_TagsFoldedAndCountedOnce ==
  [][/\ NormalizationIdempotent
     /\ SpellingsFoldToOne
     /\ \A p \in Procs :
          /\ (CreateUploadInsertStep(p) /\ Len(media') > Len(media))
               => Folded(media'[Len(media')].tags) /\ NoDuplicates(media'[Len(media')].tags)
          /\ CompleteUploadCommitStep(p)
               => \A k \in DOMAIN tag_facets' \cup DOMAIN tag_facets :
                    Count(tag_facets', k) =
                      Count(tag_facets, k)
                        + (IF /\ k[1] = media[proc[p].mid].event_id
                              /\ \E i \in 1..Len(media[proc[p].mid].tags) :
                                   media[proc[p].mid].tags[i] = k[2]
                           THEN 1 ELSE 0)]_vars

\* a row reserved with the tags "X" and "x " is finalized: it carries the one tag
\* "x", and the ledger's only tag row is "x" with count 1
C27_Witness ==
  \E m \in MediaIds :
    /\ media[m].tags = <<<<"x">>>>
    /\ media[m].status = "uploaded"
    /\ DOMAIN tag_facets = {<<media[m].event_id, <<"x">>>>}
    /\ tag_facets[<<media[m].event_id, <<"x">>>>] = 1

\* ------------------------------------------------------------------ C29
\* the rows of session s that are expired, that are in a counted status
ExpiredOf(s) ==
  Cardinality({m \in MediaIds : media[m].device_session_id = s /\ media[m].status = "expired"})

CountedOf(s) ==
  Cardinality({m \in MediaIds :
                 media[m].device_session_id = s /\ media[m].status \in {"pending", "uploaded"}})

\* C29: the quota count of a createUpload leaves the session's expired rows out,
\* and the call inserts its pending row whenever that count is below
\* max_uploads_per_guest, whatever the number of expired rows.
C29_ExpiredNotCounted ==
  [][\A p \in Procs :
       /\ CreateUploadCountStep(p)
            => /\ proc'[p].cnt = CountedOf(proc[p].sid)
               /\ proc'[p].cnt + ExpiredOf(proc[p].sid)
                    <= Cardinality({m \in MediaIds : media[m].device_session_id = proc[p].sid})
               /\ CountedOf(proc[p].sid) < events[proc[p].e].max_uploads_per_guest
                    => proc'[p].cnt < proc[p].cap
       /\ (CreateUploadInsertStep(p) /\ proc[p].cnt < proc[p].cap)
            => /\ proc'[p].result = "OK"
               /\ Len(media') = Len(media) + 1
               /\ ExpiredOf(proc[p].sid)' = ExpiredOf(proc[p].sid)]_vars

\* a session whose one upload is expired has reserved another under a ceiling of one
C29_Witness ==
  \E p \in Procs, m \in MediaIds :
    /\ proc[p].op = "createUpload" /\ proc[p].result = "OK"
    /\ events[proc[p].e].max_uploads_per_guest = 1
    /\ media[m].device_session_id = proc[p].sid /\ media[m].status = "expired"
    /\ media[Len(media)].device_session_id = proc[p].sid /\ media[Len(media)].status = "pending"
    /\ ExpiredOf(proc[p].sid) = 1 /\ CountedOf(proc[p].sid) = 1

\* ------------------------------------------------------------------ C31
\* C31: a completeUpload that an active session calls on a media row of another
\* session is answered MEDIA_NOT_FOUND at once, whatever the status of the row,
\* and the step leaves the media table and both ledgers as they were.
C31_ForeignRowNotFound ==
  [][\A p \in Procs :
       (/\ CompleteUploadSelectStep(p)
        /\ device_sessions[proc'[p].sid].is_active
        /\ media[proc'[p].mid].device_session_id # proc'[p].sid)
       => /\ proc'[p].pc = "done"
          /\ proc'[p].result = "MEDIA_NOT_FOUND"
          /\ media'[proc'[p].mid].status = media[proc'[p].mid].status
          /\ media' = media
          /\ uploader_facets' = uploader_facets
          /\ tag_facets' = tag_facets]_vars

\* guest "A", whose own row is expired, was answered MEDIA_NOT_FOUND for the
\* other guest's pending row, whose object is in the store
C31_Witness ==
  \E p \in Procs :
    /\ proc[p].op = "completeUpload" /\ proc[p].result = "MEDIA_NOT_FOUND"
    /\ media[proc[p].mid].device_session_id # proc[p].sid
    /\ media[proc[p].mid].status = "pending"
    /\ proc[p].mid \in blobs
    /\ \E m \in MediaIds : media[m].device_session_id = proc[p].sid /\ media[m].status = "expired"

\* ------------------------------------------------------------------ C32
\* run w is over: it returns, or it is rejected
RunEnds(w) == sweep[w].pc # "idle" /\ sweep'[w].pc = "idle"

\* C32: a failure on one candidate does not end the run.  A run ends only when
\* every candidate it fetched has been visited, and then the candidates it
\* counts as processed are those it cleaned plus those that failed.
C32_FailureIsolated ==
  [][\A w \in Sweepers :
       RunEnds(w) => /\ sweep[w].queue = <<>>
                     /\ sweep[w].processed = sweep[w].cleaned + sweep[w].failed]_vars

\* ------------------------------------------------------------------ C33
\* every counter of both ledgers is the number of uploaded or hidden rows that
\* bear its uploader name, its tag, and no such row goes uncounted
LedgerImplied ==
  /\ \A k \in DOMAIN uploader_facets \cup UNION {UploaderKeysOf(m) : m \in Tracked} :
       Count(uploader_facets, k) = Cardinality({m \in Tracked : k \in UploaderKeysOf(m)})
  /\ \A k \in DOMAIN tag_facets \cup UNION {TagKeysOf(m) : m \in Tracked} :
       Count(tag_facets, k) = Cardinality({m \in Tracked : k \in TagKeysOf(m)})

\* C33: a run ends with its one rebuild, after the last candidate, and with no
\* other writer at work the ledgers it leaves are those the media rows imply.
C33_RebuildOncePerRun ==
  [][\A w \in Sweepers :
       RunEnds(w) => /\ sweep[w].pc = "rebuild"
                     /\ sweep[w].queue = <<>>
                     /\ LedgerImplied']_vars

\* the step by which handler p issues the facet listing's SELECT
FacetReadStep(p) == proc[p].op = "idle" /\ proc'[p].op = "getGalleryFacets"

\* C34: a facet read is not held up by a rebuild in progress: whenever it is
\* issued, also between the rebuild's TRUNCATE and its COMMIT, it returns at
\* once with the counter persisted at that moment.
C34_ReadNeverWaits ==
  [][\A p \in Procs :
       FacetReadStep(p) =>
         /\ proc'[p].pc = "done"
         /\ proc'[p].cnt = Count(uploader_facets, <<proc'[p].e, proc'[p].name>>)]_vars

\* every request has run to completion
AllCompleted == \A p \in Procs : proc[p].pc \in {"idle", "done"}

\* C35: with every operation executed to completion, the ledgers maintained by
\* increments and decrements are the ones the media rows imply, counter by
\* counter, and a rebuild at that moment would write the very same ledgers.
C35_IncrementalEqualsRebuild ==
  AllCompleted =>
    /\ LedgerImplied
    /\ uploader_facets = rebuildGalleryFacets_uploader
    /\ tag_facets = rebuildGalleryFacets_tags

\* the increment of row m is in the ledgers: completeUpload has committed for
\* it and no run has taken it back
Incremented(m) == media[m].uploaded_at /\ ~media[m].storage_deleted_at

\* C36: the sweep takes back exactly what the finalize put in.  When
\* markCleanupSuccess commits for a row, it decrements iff the row's increment
\* is in the ledgers, for the uploader value and the tags the increment used,
\* and each counter goes down by one for such a key and stays otherwise.
C36_DecrementMirrorsIncrement ==
  [][\A w \in Sweepers :
       SuccessStep(w) =>
         LET item == Head(sweep[w].queue)
             m == item.media_id
             d(k, keys) == IF Incremented(m) /\ k \in keys THEN 1 ELSE 0
         IN /\ isFacetTrackedMediaStatus(item.status) <=> Incremented(m)
            /\ Incremented(m) =>
                 /\ normalizeUploaderName(item.uploader_name)
                      = normalizeUploaderName(media[m].uploader_name)
                 /\ normalizeTags(item.tags) = normalizeTags(media[m].tags)
            /\ \A k \in DOMAIN uploader_facets :
                 Count(uploader_facets', k) = uploader_facets[k] - d(k, UploaderKeysOf(m))
            /\ \A k \in DOMAIN tag_facets :
                 Count(tag_facets', k) = tag_facets[k] - d(k, TagKeysOf(m))]_vars

\* no cleanup run, hence no rebuild, is in progress and no completeUpload holds an
\* open transaction
AllCommitted ==
  /\ \A w \in Sweepers : sweep[w].pc = "idle"
  /\ \A p \in Procs : ~(proc[p].op = "completeUpload" /\ proc[p].pc = "facets")

C38_CountedStatusMeansFinalized ==
  \A m \in MediaIds :
    media[m].status \in {"uploaded", "hidden"}
      => /\ media[m].uploaded_at
         /\ m \in blobs
         /\ \A k \in UploaderKeysOf(m) : Count(uploader_facets, k) >= 1
         /\ \A k \in TagKeysOf(m) : Count(tag_facets, k) >= 1

\* C39: from the commit of deactivateGuest on, the session gets no new media
\* row and none of its rows changes status, whatever createUpload or
\* completeUpload was already under way for it.
C39_DeactivatedSessionFrozen ==
  [][\A s \in SessionIds :
       ~device_sessions[s].is_active
         => /\ \A m \in 1..Len(media') :
                 media'[m].device_session_id = s => m \in MediaIds
            /\ \A m \in MediaIds :
                 media[m].device_session_id = s => media'[m].status = media[m].status]_vars

\* C40: with the run scheduled again and again, a row that is a candidate and
\* whose own objects the store does delete when asked often enough is
\* eventually marked expired, however many older candidates fail in every run.
C40_NoStarvation ==
  IsCleanupCandidate(MaxMedia)
    ~> (media[MaxMedia].status = "expired" /\ media[MaxMedia].storage_deleted_at)

====
